---- MODULE Spec2Model ----
(***************************************************************************)
(* A model of static_frame.core.index_hierarchy: the IndexHierarchy and    *)
(* IndexHierarchyGO containers, the tree of IndexLevel nodes they own, the *)
(* builders that make the tree from flat labels, and the TypeBlocks cache  *)
(* that is rebuilt from the tree on demand.                                *)
(*                                                                         *)
(* IndexLevel / IndexLevelGO, Index and TypeBlocks live in modules that    *)
(* are not part of the source excerpt; what the containers need of them is *)
(* modelled from the specification (sections 3, 4.2, 4.3, 4.4 and 5).      *)
(***************************************************************************)
EXTENDS Integers, Sequences, FiniteSets, TLC

\* ------------------------------------------------------------------ bounds
\* longest label sequence handed to a builder
MaxRows == 3

\* the longest sequence of tuples a hierarchy is built from before every
\* operation is called on it
OpsRows == 2

\* the number of calls made on growable hierarchies
MaxSteps == 4

\* the labels of every depth
Labels == {1, 2}
\* the hierarchy instances alive at one time
Hiers == {1, 2, 3}
\* depths of the hierarchies built from flat labels
Depths == {2, 3}
\* the counts handed to drop_level
DropCounts == {-2, -1, 0, 1, 2}

\* ------------------------------------------------------- program constants
\* CONTINUATION_TOKEN_INACTIVE = object(): a value no label is equal to
CONTINUATION_TOKEN_INACTIVE == -1
\* token = object(): the initial entries of observed_last, equal to no label
TOKEN == 0

\* ------------------------------------------------------------------ helpers
Range(s) == {s[i] : i \in 1 .. Len(s)}

HasDup(s) == \E i, j \in 1 .. Len(s) : i < j /\ s[i] = s[j]

RECURSIVE SeqsUpTo(_, _)
\* all sequences over S of length at most n
SeqsUpTo(S, n) ==
    IF n = 0 THEN {<<>>}
    ELSE LET shorter == SeqsUpTo(S, n - 1)
         IN shorter \cup {Append(s, x) : s \in {t \in shorter : Len(t) = n - 1}, x \in S}

\* the label tuples of one depth
TuplesOfDepth(d) == [1 .. d -> Labels]

\* the label sequences handed to from_labels: equal-length tuples
LabelSeqs == UNION {SeqsUpTo(TuplesOfDepth(d), MaxRows) : d \in Depths}

\* ------------------------------------------------------------ state
VARIABLES
    heap,   \* the IndexLevel objects: heap[id] = [index, leaf, targets, offset]
    hier,   \* the hierarchy instances: hier[i] = [kind, levels, blocks, recache, name]
    last    \* the last call: operation, receiver, arguments, outcome

vars == <<heap, hier, last>>

\* ------------------------------------------------- IndexLevel (a tree node)
\* targets is None
IsLeaf(h, id) == h[id].leaf

Alloc(h, node) == [h |-> Append(h, node), id |-> Len(h) + 1, err |-> FALSE]

Failed(h) == [h |-> h, id |-> 0, err |-> TRUE]

RECURSIVE LevelLen(_, _)
RECURSIVE SumLevelLen(_, _, _)
\* IndexLevel.__len__: the number of leaf rows under a level
LevelLen(h, id) ==
    IF h[id].leaf THEN Len(h[id].index) ELSE SumLevelLen(h, h[id].targets, 1)

SumLevelLen(h, targets, i) ==
    IF i > Len(targets) THEN 0
    ELSE LevelLen(h, targets[i]) + SumLevelLen(h, targets, i + 1)

RECURSIVE LevelDepth(_, _)
\* the number of levels from a node down to its leaves
LevelDepth(h, id) ==
    IF h[id].leaf \/ h[id].targets = <<>> THEN 1
    ELSE 1 + LevelDepth(h, h[id].targets[1])

RECURSIVE FlattenRows(_, _)
RECURSIVE FlattenTargets(_, _, _)
\* depth-first traversal emitting, for each leaf, its full label tuple
FlattenRows(h, id) ==
    IF h[id].leaf THEN [i \in 1 .. Len(h[id].index) |-> <<h[id].index[i]>>]
    ELSE FlattenTargets(h, id, 1)

FlattenTargets(h, id, i) ==
    IF i > Len(h[id].targets) \/ i > Len(h[id].index) THEN <<>>
    ELSE LET sub == FlattenRows(h, h[id].targets[i])
         IN [k \in 1 .. Len(sub) |-> <<h[id].index[i]>> \o sub[k]]
            \o FlattenTargets(h, id, i + 1)

\* the TypeBlocks cache: the label matrix, one row per leaf, one column per depth
NoBlocks == [rows |-> <<>>, depth |-> 0]

\* IndexLevel.to_type_blocks
to_type_blocks(h, id) == [rows |-> FlattenRows(h, id), depth |-> LevelDepth(h, id)]

RECURSIVE CopyLevel(_, _, _)
RECURSIVE CopyTargets(_, _, _, _)
\* IndexLevel.to_index_level: a deep copy of the subtree at id; the copy's root
\* takes the given offset, every level below keeps its own
CopyLevel(h, id, offset) ==
    IF h[id].leaf
    THEN Alloc(h, [h[id] EXCEPT !.offset = offset])
    ELSE LET r == CopyTargets(h, h[id].targets, 1, <<>>)
         IN Alloc(r.h, [h[id] EXCEPT !.offset = offset, !.targets = r.targets])

CopyTargets(h, targets, i, done) ==
    IF i > Len(targets) THEN [h |-> h, targets |-> done]
    ELSE LET c == CopyLevel(h, targets[i], h[targets[i]].offset)
         IN CopyTargets(c.h, targets, i + 1, Append(done, c.id))

\* ---------------------------------------------------------------- Index
\* Index(labels): an ordered, duplicate-free mapping; duplicate labels are
\* rejected when the index is constructed
IndexRejects(labels) == HasDup(labels)

\* ------------------------------------------------- _tree_to_index_level
\* The nested ordered dictionary built from flat labels is held as a function
\* from a key path to the ordered keys below it: tree[<<>>] are the keys of the
\* outermost dict, tree[<<a>>] the keys (or, at the last depth, the list of
\* leaf labels) under a.  With uniform depth a path shorter than depth - 1
\* names a dict and a path of length depth - 1 a list.
RECURSIVE get_level(_, _, _, _, _)
RECURSIVE get_level_items(_, _, _, _, _, _, _)
get_level(h, tree, depth, path, offset) ==
    IF Len(path) < depth - 1
    THEN \* isinstance(level_data, dict)
         LET r == get_level_items(h, tree, depth, path, 1, 0, <<>>)
         IN IF r.err \/ IndexRejects(tree[path]) THEN Failed(h)
            ELSE Alloc(r.h, [index |-> tree[path], leaf |-> FALSE,
                             targets |-> r.targets, offset |-> offset])
    ELSE \* an iterable, terminal node
         IF IndexRejects(tree[path]) THEN Failed(h)
         ELSE Alloc(h, [index |-> tree[path], leaf |-> TRUE,
                        targets |-> <<>>, offset |-> offset])

\* the loop over level_data.items(): offset_local is the running total of the
\* sizes of the levels made so far
get_level_items(h, tree, depth, path, idx, offset_local, targets) ==
    IF idx > Len(tree[path]) THEN [h |-> h, targets |-> targets, err |-> FALSE]
    ELSE LET level == get_level(h, tree, depth, Append(path, tree[path][idx]),
                                offset_local)
         IN IF level.err THEN [h |-> h, targets |-> targets, err |-> TRUE]
            ELSE get_level_items(level.h, tree, depth, path, idx + 1,
                                 offset_local + LevelLen(level.h, level.id),
                                 Append(targets, level.id))

_tree_to_index_level(h, tree, depth) == get_level(h, tree, depth, <<>>, 0)

\* ------------------------------------------------------ IndexHierarchy
NoHier == [kind |-> "none", levels |-> 0, blocks |-> NoBlocks,
           recache |-> FALSE, name |-> "None"]

\* STATIC is True for IndexHierarchy and False for IndexHierarchyGO
STATIC(kind) == kind = "IH"

\* __init__ given an IndexLevel: the instance takes ownership of the level
init_from_level(kind, levels, name, blocks) ==
    [kind |-> kind, levels |-> levels, blocks |-> blocks,
     recache |-> (blocks = NoBlocks), name |-> name]

\* _update_array_cache
_update_array_cache(h, self) ==
    [self EXCEPT !.blocks = to_type_blocks(h, self.levels), !.recache = FALSE]

\* "if self._recache: self._update_array_cache()"
Recached(h, self) == IF self.recache THEN _update_array_cache(h, self) ELSE self

\* ------------------------------------------------------------ from_labels
EmptyTree == (<<>> :> <<>>)

\* the loop pass without "if v != observed_last[d]: raise": an existing key is
\* fetched whether or not it is the sequential predecessor
from_labels_step_refetch(st, d, v0, depth, continuation_token) ==
    LET v == IF continuation_token # CONTINUATION_TOKEN_INACTIVE
                /\ v0 = continuation_token
             THEN st.observed_last[d + 1] ELSE v0
        current == st.current
    IN IF st.err THEN st
       ELSE IF d < depth - 1
       THEN IF v \notin Range(st.tree[current])
            THEN [st EXCEPT !.tree = (Append(current, v) :> <<>>)
                                     @@ [st.tree EXCEPT ![current] = Append(@, v)],
                            !.current = Append(current, v),
                            !.observed_last[d + 1] = v]
            ELSE [st EXCEPT !.current = Append(current, v),
                            !.observed_last[d + 1] = v]
       ELSE IF d = depth - 1
       THEN [st EXCEPT !.tree[current] = Append(@, v)]
       ELSE [st EXCEPT !.err = TRUE]

\* one pass of the loop over enumerate(label); d is the zero-based depth
from_labels_step(st, d, v0, depth, continuation_token) ==
    LET v == IF continuation_token # CONTINUATION_TOKEN_INACTIVE
                /\ v0 = continuation_token
             THEN st.observed_last[d + 1] ELSE v0
        current == st.current
    IN IF st.err THEN st
       ELSE IF d < depth - 1
       THEN \* d < depth_pre_max (a dict below) or d < depth_max (a list below)
            IF v \notin Range(st.tree[current])
            THEN [st EXCEPT !.tree = (Append(current, v) :> <<>>)
                                     @@ [st.tree EXCEPT ![current] = Append(@, v)],
                            !.current = Append(current, v),
                            !.observed_last[d + 1] = v]
            ELSE IF v # st.observed_last[d + 1]
                 THEN [st EXCEPT !.err = TRUE]
                 ELSE [st EXCEPT !.current = Append(current, v),
                                 !.observed_last[d + 1] = v]
       ELSE IF d = depth - 1
       THEN [st EXCEPT !.tree[current] = Append(@, v)]
       ELSE [st EXCEPT !.err = TRUE]

RECURSIVE from_labels_label(_, _, _, _, _)
from_labels_label(st, label, d, depth, continuation_token) ==
    IF d >= Len(label) THEN st
    ELSE from_labels_label(
            from_labels_step(st, d, label[d + 1], depth, continuation_token),
            label, d + 1, depth, continuation_token)

RECURSIVE from_labels_rows(_, _, _, _, _)
from_labels_rows(st, labels, i, depth, continuation_token) ==
    IF i > Len(labels) \/ st.err THEN st
    ELSE from_labels_rows(
            from_labels_label([st EXCEPT !.current = <<>>], labels[i], 0, depth,
                              continuation_token),
            labels, i + 1, depth, continuation_token)

\* the nested dictionary from_labels builds, or err
from_labels_tree(labels, depth, continuation_token) ==
    from_labels_rows([tree |-> EmptyTree,
                      observed_last |-> [d \in 1 .. depth |-> TOKEN],
                      current |-> <<>>, err |-> FALSE],
                     labels, 1, depth, continuation_token)

\* from_labels (reorder_for_hierarchy False): [h, obj, err]
from_labels(h, kind, labels, name, continuation_token) ==
    IF labels = <<>>
    THEN \* an empty iterable: a hierarchy over one empty leaf level
         LET a == Alloc(h, [index |-> <<>>, leaf |-> TRUE, targets |-> <<>>,
                            offset |-> 0])
         IN [h |-> a.h, obj |-> init_from_level(kind, a.id, name, NoBlocks),
             err |-> FALSE]
    ELSE LET depth == Len(labels[1])
             st == from_labels_tree(labels, depth, continuation_token)
             levels == _tree_to_index_level(h, st.tree, depth)
         IN IF depth < 2 \/ st.err \/ levels.err
            THEN [h |-> h, obj |-> NoHier, err |-> TRUE]
            ELSE [h |-> levels.h,
                  obj |-> init_from_level(kind, levels.id, name, NoBlocks),
                  err |-> FALSE]

\* __iter__ without "if self._recache: self._update_array_cache()"
iter_rows_unchecked(h, self) == self.blocks.rows

\* __iter__: the tuples the iteration yields
iter_rows(h, self) == Recached(h, self).blocks.rows

\* ------------------------------------------------------ _from_type_blocks
\* the loop pass without "if v != observed_last[d]: raise"
from_type_blocks_step_refetch(st, d, v, depth) ==
    LET current == st.current
    IN IF st.err THEN st
       ELSE IF d < depth - 1
       THEN IF v \notin Range(st.tree[current])
            THEN [st EXCEPT !.tree = (Append(current, v) :> <<>>)
                                     @@ [st.tree EXCEPT ![current] = Append(@, v)],
                            !.current = Append(current, v),
                            !.observed_last[d + 1] = v]
            ELSE [st EXCEPT !.current = Append(current, v),
                            !.observed_last[d + 1] = v]
       ELSE IF d = depth - 1
       THEN [st EXCEPT !.tree[current] = Append(@, v)]
       ELSE [st EXCEPT !.err = TRUE]

\* one pass of the loop over blocks.element_items(): element v of column d
from_type_blocks_step(st, d, v, depth) ==
    LET current == st.current
    IN IF st.err THEN st
       ELSE IF d < depth - 1
       THEN \* d < depth_pre_max (a dict below) or d < depth_max (a list below)
            IF v \notin Range(st.tree[current])
            THEN [st EXCEPT !.tree = (Append(current, v) :> <<>>)
                                     @@ [st.tree EXCEPT ![current] = Append(@, v)],
                            !.current = Append(current, v),
                            !.observed_last[d + 1] = v]
            ELSE IF v # st.observed_last[d + 1]
                 THEN [st EXCEPT !.err = TRUE]
                 ELSE [st EXCEPT !.current = Append(current, v),
                                 !.observed_last[d + 1] = v]
       ELSE IF d = depth - 1
       THEN [st EXCEPT !.tree[current] = Append(@, v)]
       ELSE [st EXCEPT !.err = TRUE]

RECURSIVE from_type_blocks_items(_, _, _, _, _)
\* element_items() yields ((idx_row, d), v) row by row, each row left to right;
\* current is set back to the outermost dict when idx_row changes
from_type_blocks_items(st, rows, idx_row, d, depth) ==
    IF idx_row > Len(rows) \/ st.err THEN st
    ELSE IF d >= depth THEN from_type_blocks_items(st, rows, idx_row + 1, 0, depth)
    ELSE from_type_blocks_items(
            from_type_blocks_step(
                IF d = 0 THEN [st EXCEPT !.current = <<>>] ELSE st,
                d, rows[idx_row][d + 1], depth),
            rows, idx_row, d + 1, depth)

\* _from_type_blocks: [h, obj, err]
_from_type_blocks(h, kind, blocks, name) ==
    LET depth == blocks.depth
        st == from_type_blocks_items(
                [tree |-> EmptyTree,
                 observed_last |-> [d \in 1 .. depth |-> TOKEN],
                 current |-> <<>>, err |-> FALSE],
                blocks.rows, 1, 0, depth)
        levels == _tree_to_index_level(h, st.tree, depth)
    IN IF depth < 2 \/ st.err \/ levels.err
       THEN [h |-> h, obj |-> NoHier, err |-> TRUE]
       ELSE [h |-> levels.h,
             obj |-> init_from_level(kind, levels.id, name, blocks),
             err |-> FALSE]

\* ------------------------------------------------------------ loc_to_iloc
\* the position of a label in an index, 0 when the label is absent
IndexPos(index, v) ==
    IF \E i \in 1 .. Len(index) : index[i] = v
    THEN CHOOSE i \in 1 .. Len(index) : index[i] = v
    ELSE 0

KeyError == [ok |-> FALSE, pos |-> -1]

RECURSIVE leaf_loc_to_iloc(_, _, _, _, _)
\* the walk of the Loc Resolver for one complete tuple: at each level the key
\* segment is resolved against the index, the level's offset is added, and the
\* addressed child is entered; positions are zero-based
leaf_loc_to_iloc(h, id, key, d, pos) ==
    LET p == IndexPos(h[id].index, key[d])
    IN IF p = 0 THEN KeyError
       ELSE IF h[id].leaf
            THEN IF d = Len(key)
                 THEN [ok |-> TRUE, pos |-> pos + h[id].offset + (p - 1)]
                 ELSE KeyError
       ELSE IF d = Len(key) \/ p > Len(h[id].targets) THEN KeyError
       ELSE leaf_loc_to_iloc(h, h[id].targets[p], key, d + 1, pos + h[id].offset)

\* IndexLevel.loc_to_iloc for a tuple key
level_loc_to_iloc(h, id, key) ==
    IF key = <<>> THEN KeyError ELSE leaf_loc_to_iloc(h, id, key, 1, 0)

\* IndexHierarchy.loc_to_iloc for a tuple key: passed on to the levels, the
\* cache is neither read nor rebuilt
loc_to_iloc(h, self, key) == level_loc_to_iloc(h, self.levels, key)

RECURSIVE level_contains(_, _, _, _)
\* IndexLevel.__contains__ for a leaf loc
level_contains(h, id, key, d) ==
    LET p == IndexPos(h[id].index, key[d])
    IN IF p = 0 THEN FALSE
       ELSE IF h[id].leaf THEN d = Len(key)
       ELSE IF d = Len(key) \/ p > Len(h[id].targets) THEN FALSE
       ELSE level_contains(h, h[id].targets[p], key, d + 1)

\* IndexHierarchy.__contains__: levels only, no recache
contains(h, self, value) ==
    IF value = <<>> THEN FALSE ELSE level_contains(h, self.levels, value, 1)

\* -------------------------------------------------------------------- sort
\* keys[k][i] < keys[k][j] decided by the last key on which rows i and j differ
RECURSIVE LexBefore(_, _, _, _)
LexBefore(keys, k, i, j) ==
    IF k = 0 THEN i < j
    ELSE IF keys[k][i] # keys[k][j] THEN keys[k][i] < keys[k][j]
    ELSE LexBefore(keys, k - 1, i, j)

RECURSIVE SortedInsert(_, _, _)
SortedInsert(keys, order, i) ==
    IF order = <<>> THEN <<i>>
    ELSE IF LexBefore(keys, Len(keys), i, Head(order)) THEN <<i>> \o order
    ELSE <<Head(order)>> \o SortedInsert(keys, Tail(order), i)

RECURSIVE LexsortUpTo(_, _, _)
LexsortUpTo(keys, n, i) ==
    IF i = 0 THEN <<>> ELSE SortedInsert(keys, LexsortUpTo(keys, n, i - 1), i)

\* np.lexsort(keys): the row order (one-based here) of an indirect stable sort
\* in which the last key of the sequence is the primary sort key
lexsort(keys) ==
    IF keys = <<>> THEN <<>> ELSE LexsortUpTo(keys, Len(keys[1]), Len(keys[1]))

Column(rows, i) == [r \in 1 .. Len(rows) |-> rows[r][i]]

Reverse(s) == [k \in 1 .. Len(s) |-> s[Len(s) + 1 - k]]

\* blocks._extract(row_key=order)
ExtractRows(blocks, order) ==
    [rows |-> [k \in 1 .. Len(order) |-> blocks.rows[order[k]]],
     depth |-> blocks.depth]

\* the keys in the order of the depths: [v[:, i] for i in range(v.shape[1])]
sort_keys_forward(v, depth) == [k \in 1 .. depth |-> Column(v, k)]

\* the keys handed to lexsort: [v[:, i] for i in range(v.shape[1]-1, -1, -1)]
sort_keys(v, depth) == [k \in 1 .. depth |-> Column(v, depth + 1 - k)]

\* sort without "if not ascending: order = order[::-1]"
sort_ignores_ascending(h, self0, ascending) ==
    LET self == Recached(h, self0)
        v == self.blocks.rows
        order == lexsort(sort_keys(v, self.blocks.depth))
        r == _from_type_blocks(h, self.kind, ExtractRows(self.blocks, order),
                               self.name)
    IN [h |-> r.h, self |-> self, obj |-> r.obj, err |-> r.err]

\* sort: [h, self (recached), obj, err]
sort(h, self0, ascending) ==
    LET self == Recached(h, self0)
        v == self.blocks.rows
        order0 == lexsort(sort_keys(v, self.blocks.depth))
        order == IF ascending THEN order0 ELSE Reverse(order0)
        r == _from_type_blocks(h, self.kind, ExtractRows(self.blocks, order),
                               self.name)
    IN [h |-> r.h, self |-> self, obj |-> r.obj, err |-> r.err]

\* ------------------------------------------------- add_level / drop_level
\* add_level with "targets=levels_src.targets": the new label takes the place
\* of the root index
add_level_replaces_root(h, self, level) ==
    LET src == IF STATIC(self.kind)
               THEN [h |-> h, id |-> self.levels]
               ELSE CopyLevel(h, self.levels, 0)
        levels == Alloc(src.h, [index |-> <<level>>, leaf |-> src.h[src.id].leaf,
                                targets |-> src.h[src.id].targets, offset |-> 0])
    IN [h |-> levels.h,
        obj |-> init_from_level(self.kind, levels.id, self.name, NoBlocks)]

\* add_level: [h, obj]; the receiver's cache and flag are not consulted
add_level(h, self, level) ==
    LET src == IF STATIC(self.kind)
               THEN [h |-> h, id |-> self.levels]  \* can reuse levels
               ELSE CopyLevel(h, self.levels, 0)
        levels == Alloc(src.h, [index |-> <<level>>, leaf |-> FALSE,
                                targets |-> <<src.id>>, offset |-> 0])
    IN [h |-> levels.h,
        obj |-> init_from_level(self.kind, levels.id, self.name, NoBlocks)]

RECURSIVE drop_level_stack(_, _)
\* the walk "while levels_stack": a level whose first target is a leaf level
\* loses its targets, the targets of any other level are pushed
drop_level_stack(h, levels_stack) ==
    IF levels_stack = <<>> THEN [h |-> h, err |-> FALSE]
    ELSE LET level == levels_stack[Len(levels_stack)]
             rest == SubSeq(levels_stack, 1, Len(levels_stack) - 1)
         IN IF h[level].leaf \/ h[level].targets = <<>>
            THEN [h |-> h, err |-> TRUE]  \* level.targets[0] raises
            ELSE IF h[h[level].targets[1]].leaf
                 THEN drop_level_stack(
                        [h EXCEPT ![level].leaf = TRUE, ![level].targets = <<>>],
                        rest)
                 ELSE drop_level_stack(h, rest \o h[level].targets)

RECURSIVE drop_level_negative(_, _, _)
\* for _ in range(abs(count)), count < 0
drop_level_negative(h, levels, n) ==
    IF n = 0 THEN [h |-> h, err |-> FALSE]
    ELSE LET r == drop_level_stack(h, <<levels>>)
         IN IF r.err THEN r
            ELSE IF r.h[levels].leaf THEN r  \* break
            ELSE drop_level_negative(r.h, levels, n - 1)

RECURSIVE ConcatIndex(_, _, _)
\* labels.extend(target.index) over level.targets
ConcatIndex(h, targets, i) ==
    IF i > Len(targets) THEN <<>>
    ELSE h[targets[i]].index \o ConcatIndex(h, targets, i + 1)

RECURSIVE ConcatTargets(_, _, _)
\* targets.extend(target.targets) over the targets that have targets
ConcatTargets(h, targets, i) ==
    IF i > Len(targets) THEN <<>>
    ELSE (IF h[targets[i]].leaf THEN <<>> ELSE h[targets[i]].targets)
         \o ConcatTargets(h, targets, i + 1)

RECURSIVE drop_level_positive(_, _, _)
\* for _ in range(count), count > 0: [h, id, err, plain]; plain is TRUE when
\* the loop returned the one-dimensional index
drop_level_positive(h, level, n) ==
    IF n = 0 THEN [h |-> h, id |-> level, err |-> FALSE, plain |-> FALSE]
    ELSE IF h[level].leaf
    THEN [h |-> h, id |-> 0, err |-> TRUE, plain |-> FALSE]  \* for target in None
    ELSE LET labels == ConcatIndex(h, h[level].targets, 1)
             targets == ConcatTargets(h, h[level].targets, 1)
         IN IF IndexRejects(labels)
            THEN [h |-> h, id |-> 0, err |-> TRUE, plain |-> FALSE]
            ELSE IF targets = <<>>
            THEN LET a == Alloc(h, [index |-> labels, leaf |-> TRUE,
                                    targets |-> <<>>, offset |-> 0])
                 IN [h |-> a.h, id |-> a.id, err |-> FALSE, plain |-> TRUE]
            ELSE LET a == Alloc(h, [index |-> labels, leaf |-> FALSE,
                                    targets |-> targets, offset |-> 0])
                 IN drop_level_positive(a.h, a.id, n - 1)

\* a one-dimensional Index returned in place of a hierarchy
PlainIndex(id) ==
    [kind |-> "Index", levels |-> id, blocks |-> NoBlocks, recache |-> FALSE,
     name |-> "None"]

\* drop_level with the two branches exchanged: "if count > 0" walks the leaf
\* side and "elif count < 0" the root side
drop_level_exchanged(h, self, count) ==
    IF count > 0
    THEN LET levels == CopyLevel(h, self.levels, 0)
             r == drop_level_negative(levels.h, levels.id, count)
         IN IF r.err THEN [h |-> h, obj |-> NoHier, err |-> TRUE]
            ELSE IF r.h[levels.id].leaf
            THEN [h |-> r.h, obj |-> PlainIndex(levels.id), err |-> FALSE]
            ELSE [h |-> r.h,
                  obj |-> init_from_level(self.kind, levels.id, self.name, NoBlocks),
                  err |-> FALSE]
    ELSE IF count < 0
    THEN LET level == CopyLevel(h, self.levels, 0)
             r == drop_level_positive(level.h, level.id, -count)
         IN IF r.err THEN [h |-> h, obj |-> NoHier, err |-> TRUE]
            ELSE IF r.plain
            THEN [h |-> r.h, obj |-> PlainIndex(r.id), err |-> FALSE]
            ELSE [h |-> r.h,
                  obj |-> init_from_level(self.kind, r.id, self.name, NoBlocks),
                  err |-> FALSE]
    ELSE [h |-> h, obj |-> NoHier, err |-> TRUE]

\* drop_level: [h, obj, err]
drop_level(h, self, count) ==
    IF count < 0
    THEN LET levels == CopyLevel(h, self.levels, 0)
             r == drop_level_negative(levels.h, levels.id, -count)
         IN IF r.err THEN [h |-> h, obj |-> NoHier, err |-> TRUE]
            ELSE IF r.h[levels.id].leaf
            THEN [h |-> r.h, obj |-> PlainIndex(levels.id), err |-> FALSE]
            ELSE [h |-> r.h,
                  obj |-> init_from_level(self.kind, levels.id, self.name, NoBlocks),
                  err |-> FALSE]
    ELSE IF count > 0
    THEN LET level == CopyLevel(h, self.levels, 0)
             r == drop_level_positive(level.h, level.id, count)
         IN IF r.err THEN [h |-> h, obj |-> NoHier, err |-> TRUE]
            ELSE IF r.plain
            THEN [h |-> r.h, obj |-> PlainIndex(r.id), err |-> FALSE]
            ELSE [h |-> r.h,
                  obj |-> init_from_level(self.kind, r.id, self.name, NoBlocks),
                  err |-> FALSE]
    ELSE [h |-> h, obj |-> NoHier, err |-> TRUE]  \* NotImplementedError

\* ----------------------------------------------------------- from_product
RECURSIVE from_product_targets(_, _, _, _, _, _, _, _)
\* "for idx, _ in enumerate(index_up)": one level per label of the index above,
\* every one over the same index and the same targets_previous; offset is the
\* running total of their sizes
from_product_targets(h, index, leaf, targets_previous, n, idx, targets, offset) ==
    IF idx > n THEN [h |-> h, targets |-> targets]
    ELSE LET level == Alloc(h, [index |-> index, leaf |-> leaf,
                                targets |-> targets_previous, offset |-> offset])
         IN from_product_targets(level.h, index, leaf, targets_previous, n,
                                 idx + 1, Append(targets, level.id),
                                 offset + LevelLen(level.h, level.id))

RECURSIVE from_product_depths(_, _, _, _)
\* "while depth > 0", from the bottom up; depth is zero-based and
\* targets_previous is None in the first pass
from_product_depths(h, indices, depth, targets_previous) ==
    IF depth <= 0 THEN [h |-> h, targets |-> targets_previous]
    ELSE LET r == from_product_targets(h, indices[depth + 1],
                                       depth = Len(indices) - 1, targets_previous,
                                       Len(indices[depth]), 1, <<>>, 0)
         IN from_product_depths(r.h, indices, depth - 1, r.targets)

\* from_product with the levels taken innermost first
from_product_innermost_first(h, kind, levels, name) ==
    LET indices == Reverse(levels)
    IN IF \E i \in 1 .. Len(levels) : IndexRejects(levels[i])
       THEN [h |-> h, obj |-> NoHier, err |-> TRUE]
       ELSE IF Len(indices) <= 1
       THEN [h |-> h, obj |-> NoHier, err |-> TRUE]
       ELSE LET r == from_product_depths(h, indices, Len(indices) - 1, <<>>)
                level == Alloc(r.h, [index |-> indices[1], leaf |-> FALSE,
                                     targets |-> r.targets, offset |-> 0])
            IN [h |-> level.h,
                obj |-> init_from_level(kind, level.id, name, NoBlocks),
                err |-> FALSE]

\* from_product: [h, obj, err]
from_product(h, kind, levels, name) ==
    IF \E i \in 1 .. Len(levels) : IndexRejects(levels[i])
    THEN [h |-> h, obj |-> NoHier, err |-> TRUE]  \* _INDEX_CONSTRUCTOR(lvl)
    ELSE IF Len(levels) = 1
    THEN [h |-> h, obj |-> NoHier, err |-> TRUE]  \* 'only one level given'
    ELSE IF Len(levels) = 0
    THEN [h |-> h, obj |-> NoHier, err |-> TRUE]  \* index_up is not bound
    ELSE LET r == from_product_depths(h, levels, Len(levels) - 1, <<>>)
             level == Alloc(r.h, [index |-> levels[1], leaf |-> FALSE,
                                  targets |-> r.targets, offset |-> 0])
         IN [h |-> level.h,
             obj |-> init_from_level(kind, level.id, name, NoBlocks),
             err |-> FALSE]

\* ------------------------------------------------------- from_index_items
RECURSIVE from_index_items_levels(_, _, _, _, _)
\* the loop over items, pairs <<label, index>>: one leaf level per index,
\* offset the running total of the lengths
from_index_items_levels(h, items, i, offset, index_levels) ==
    IF i > Len(items) THEN [h |-> h, targets |-> index_levels]
    ELSE LET level == Alloc(h, [index |-> items[i][2], leaf |-> TRUE,
                                targets |-> <<>>, offset |-> offset])
         IN from_index_items_levels(level.h, items, i + 1,
                                    offset + Len(items[i][2]),
                                    Append(index_levels, level.id))

\* from_index_items: [h, obj, err]
from_index_items(h, kind, items) ==
    LET labels == [i \in 1 .. Len(items) |-> items[i][1]]
        r == from_index_items_levels(h, items, 1, 0, <<>>)
        level == Alloc(r.h, [index |-> labels, leaf |-> FALSE,
                             targets |-> r.targets, offset |-> 0])
    IN IF IndexRejects(labels) THEN [h |-> h, obj |-> NoHier, err |-> TRUE]
       ELSE [h |-> level.h,
             obj |-> init_from_level(kind, level.id, "None", NoBlocks),
             err |-> FALSE]

\* -------------------------------------------------------------- from_tree
\* from_tree: [h, obj, err]; the tree is held as from_labels holds it, with
\* the depth at which its lists are
from_tree(h, kind, tree, depth, name) ==
    LET levels == _tree_to_index_level(h, tree, depth)
    IN IF levels.err THEN [h |-> h, obj |-> NoHier, err |-> TRUE]
       ELSE [h |-> levels.h,
             obj |-> init_from_level(kind, levels.id, name, NoBlocks),
             err |-> FALSE]

\* ---------------------------------------------------- the other operations
\* Each operator gives the result of one call: the heap and the receiver after
\* it (the receiver's cache may have been rebuilt), the hierarchy returned
\* (obj), the value returned (out), and whether the call raised (err).
Result(h, self, obj, out, err) ==
    [h |-> h, self |-> self, obj |-> obj, out |-> out, err |-> err]

\* __len__ without "if self._recache: self._update_array_cache()"
len_unchecked(h, self0) ==
    Result(h, self0, NoHier, <<Len(self0.blocks.rows)>>, FALSE)

\* __len__
len(h, self0) ==
    LET self == Recached(h, self0)
    IN Result(h, self, NoHier, <<Len(self.blocks.rows)>>, FALSE)

\* __iter__
iter(h, self0) ==
    Result(h, Recached(h, self0), NoHier, iter_rows(h, self0), FALSE)

\* depth
depth(h, self0) ==
    LET self == Recached(h, self0)
    IN Result(h, self, NoHier, <<self.blocks.depth>>, FALSE)

\* shape
shape(h, self0) ==
    LET self == Recached(h, self0)
    IN Result(h, self, NoHier, <<Len(self.blocks.rows), self.blocks.depth>>, FALSE)

\* values
values(h, self0) ==
    LET self == Recached(h, self0)
    IN Result(h, self, NoHier, self.blocks.rows, FALSE)

\* __contains__
contains_op(h, self, value) ==
    Result(h, self, NoHier, <<contains(h, self, value)>>, FALSE)

\* loc_to_iloc with a tuple key
loc_to_iloc_op(h, self, key) ==
    LET r == loc_to_iloc(h, self, key)
    IN Result(h, self, NoHier, <<r.pos>>, ~r.ok)

\* _extract_iloc with an integer key, taking the row after the one asked for
_extract_iloc_int_next(h, self0, key) ==
    LET self == Recached(h, self0)
    IN IF key < 0 \/ key + 1 >= Len(self.blocks.rows)
       THEN Result(h, self, NoHier, <<>>, TRUE)
       ELSE Result(h, self, NoHier, self.blocks.rows[key + 2], FALSE)

\* _extract_iloc with an integer key (zero-based)
_extract_iloc_int(h, self0, key) ==
    LET self == Recached(h, self0)
    IN IF key < 0 \/ key >= Len(self.blocks.rows)
       THEN Result(h, self, NoHier, <<>>, TRUE)
       ELSE Result(h, self, NoHier, self.blocks.rows[key + 1], FALSE)

\* _extract_iloc with a list of integers (zero-based)
_extract_iloc_list(h, self0, key) ==
    LET self == Recached(h, self0)
    IN IF \E k \in 1 .. Len(key) : key[k] < 0 \/ key[k] >= Len(self.blocks.rows)
       THEN Result(h, self, NoHier, <<>>, TRUE)
       ELSE LET tb == ExtractRows(self.blocks, [k \in 1 .. Len(key) |-> key[k] + 1])
                r == _from_type_blocks(h, self.kind, tb, self.name)
            IN Result(r.h, self, r.obj, <<>>, r.err)

\* _extract_loc with a tuple key: _extract_iloc(loc_to_iloc(key))
_extract_loc(h, self, key) ==
    LET r == loc_to_iloc(h, self, key)
    IN IF ~r.ok THEN Result(h, self, NoHier, <<>>, TRUE)
       ELSE _extract_iloc_int(h, self, r.pos)

\* blocks._drop_blocks(row_key=key): the rows at the (zero-based) positions
\* of key are removed
RECURSIVE DropRows(_, _, _)
DropRows(rows, key, i) ==
    IF i > Len(rows) THEN <<>>
    ELSE (IF (i - 1) \in Range(key) THEN <<>> ELSE <<rows[i]>>)
         \o DropRows(rows, key, i + 1)

\* _drop_iloc that takes the rebuilt tree as the receiver's own
_drop_iloc_in_place(h, self0, key) ==
    LET self == Recached(h, self0)
    IN IF \E k \in 1 .. Len(key) : key[k] < 0 \/ key[k] >= Len(self.blocks.rows)
       THEN Result(h, self, NoHier, <<>>, TRUE)
       ELSE LET blocks == [rows |-> DropRows(self.blocks.rows, key, 1),
                           depth |-> self.blocks.depth]
                r == _from_type_blocks(h, self.kind, blocks, self.name)
            IN Result(r.h, IF r.err THEN self ELSE r.obj, r.obj, <<>>, r.err)

\* _drop_iloc with a list of integers
_drop_iloc(h, self0, key) ==
    LET self == Recached(h, self0)
    IN IF \E k \in 1 .. Len(key) : key[k] < 0 \/ key[k] >= Len(self.blocks.rows)
       THEN Result(h, self, NoHier, <<>>, TRUE)
       ELSE LET blocks == [rows |-> DropRows(self.blocks.rows, key, 1),
                           depth |-> self.blocks.depth]
                r == _from_type_blocks(h, self.kind, blocks, self.name)
            IN Result(r.h, self, r.obj, <<>>, r.err)

\* _drop_loc with a tuple key: _drop_iloc(loc_to_iloc(key))
_drop_loc(h, self, key) ==
    LET r == loc_to_iloc(h, self, key)
    IN IF ~r.ok THEN Result(h, self, NoHier, <<>>, TRUE)
       ELSE _drop_iloc(h, self, <<r.pos>>)

\* sort
sort_op(h, self, ascending) ==
    LET r == sort(h, self, ascending)
    IN Result(r.h, r.self, r.obj, <<>>, r.err)

\* isin that passes over a candidate without __iter__ instead of raising
isin_skips_scalars(h, self0, other) ==
    LET self == Recached(h, self0)
        matches == {other[k].items : k \in {m \in 1 .. Len(other) :
                       /\ other[m].iterable
                       /\ Len(other[m].items) = self.blocks.depth}}
        rows == self.blocks.rows
    IN IF matches = {}
       THEN Result(h, self, NoHier, [i \in 1 .. Len(rows) |-> FALSE], FALSE)
       ELSE Result(h, self, NoHier, [i \in 1 .. Len(rows) |-> rows[i] \in matches],
                   IndexRejects(rows))

\* isin: a candidate is [iterable, items]; one without __iter__ raises, the
\* candidates whose length is the depth are kept, and a row is marked when it
\* is one of them
isin(h, self0, other) ==
    LET self == Recached(h, self0)
        matches == {other[k].items : k \in {m \in 1 .. Len(other) :
                       Len(other[m].items) = self.blocks.depth}}
        rows == self.blocks.rows
    IN IF \E k \in 1 .. Len(other) : ~other[k].iterable
       THEN Result(h, self, NoHier, <<>>, TRUE)
       ELSE IF matches = {}
       THEN Result(h, self, NoHier, [i \in 1 .. Len(rows) |-> FALSE], FALSE)
       ELSE Result(h, self, NoHier, [i \in 1 .. Len(rows) |-> rows[i] \in matches],
                   IndexRejects(rows))

\* blocks._shift_blocks(row_shift=shift, wrap=True): row i of the result is
\* row (i - shift) mod n
ShiftRows(rows, shift) ==
    [i \in 1 .. Len(rows) |-> rows[((i - 1 - shift) % Len(rows)) + 1]]

\* roll with the rows shifted the other way
roll_backward(h, self0, shift) ==
    LET self == Recached(h, self0)
        blocks == [rows |-> ShiftRows(self.blocks.rows, -shift),
                   depth |-> self.blocks.depth]
        r == _from_type_blocks(h, self.kind, blocks, self.name)
    IN Result(r.h, self, r.obj, <<>>, r.err)

\* roll
roll(h, self0, shift) ==
    LET self == Recached(h, self0)
        blocks == [rows |-> ShiftRows(self.blocks.rows, shift),
                   depth |-> self.blocks.depth]
        r == _from_type_blocks(h, self.kind, blocks, self.name)
    IN Result(r.h, self, r.obj, <<>>, r.err)

\* from_labels with its keyword arguments: [h, obj, err]
from_labels_call(h, kind, labels, name, reorder_for_hierarchy, continuation_token) ==
    IF reorder_for_hierarchy
    THEN IF continuation_token # CONTINUATION_TOKEN_INACTIVE
         THEN [h |-> h, obj |-> NoHier, err |-> TRUE]  \* RuntimeError
         ELSE from_labels(h, kind, labels, name, continuation_token)
    ELSE from_labels(h, kind, labels, name, continuation_token)

\* relabel with a mapping, given as its pairs <<key, value>>: mapper.get(label, label)
MapGet(mapper, label) ==
    IF \E k \in 1 .. Len(mapper) : mapper[k][1] = label
    THEN mapper[CHOOSE k \in 1 .. Len(mapper) : mapper[k][1] = label][2]
    ELSE label

\* the other label (the callables below exchange the two labels)
Other(v) == IF v \in Labels /\ Labels \ {v} # {} THEN CHOOSE w \in Labels : w # v ELSE v

\* mapper(x) for a callable, named by what it does to a label tuple
MapCall(f, label) ==
    IF label = <<>> THEN label
    ELSE IF f = "flip_first" THEN [label EXCEPT ![1] = Other(@)]
    ELSE IF f = "flip_last" THEN [label EXCEPT ![Len(label)] = Other(@)]
    ELSE IF f = "first_is_1" THEN [label EXCEPT ![1] = 1]
    ELSE IF f = "swap_ends" THEN [d \in 1 .. Len(label) |-> label[Len(label) + 1 - d]]
    ELSE label

\* the row relabel hands to from_labels for a label: mapper is
\* [callable, f (the callable), pairs (the mapping)]
Relabelled(mapper, label) ==
    IF mapper.callable THEN MapCall(mapper.f, label) ELSE MapGet(mapper.pairs, label)

\* relabel with "getitem = getattr(mapper, '__getitem__')": a row that is no
\* key of the mapping raises
relabel_getitem(h, self0, mapper) ==
    LET self == Recached(h, self0)
        rows == self.blocks.rows
        r == from_labels(h, self.kind,
                         [i \in 1 .. Len(rows) |-> Relabelled(mapper, rows[i])],
                         self.name, CONTINUATION_TOKEN_INACTIVE)
        missing == /\ ~mapper.callable
                   /\ \E i \in 1 .. Len(rows) :
                         \A k \in 1 .. Len(mapper.pairs) : mapper.pairs[k][1] # rows[i]
    IN IF missing THEN Result(h, self, NoHier, <<>>, TRUE)
       ELSE Result(r.h, self, r.obj, <<>>, r.err)

\* relabel
relabel(h, self0, mapper) ==
    LET self == Recached(h, self0)
        rows == self.blocks.rows
        r == from_labels(h, self.kind,
                         [i \in 1 .. Len(rows) |-> Relabelled(mapper, rows[i])],
                         self.name, CONTINUATION_TOKEN_INACTIVE)
    IN Result(r.h, self, r.obj, <<>>, r.err)

\* rehierarch_and_map: the columns are reordered by depth_map and the rows are
\* handed to the builder, which fails when they do not form contiguous runs
rehierarch_and_map(h, kind, labels, depth_map) ==
    from_labels(h, kind,
                [i \in 1 .. Len(labels) |->
                    [d \in 1 .. Len(depth_map) |-> labels[i][depth_map[d] + 1]]],
                "None", CONTINUATION_TOKEN_INACTIVE)

\* rehierarch
rehierarch(h, self0, depth_map) ==
    LET v == values(h, self0)
        r == rehierarch_and_map(h, self0.kind, v.out, depth_map)
    IN Result(r.h, v.self, r.obj, <<>>, r.err)

\* the element conversion of astype: to bool every label is True (held as 1),
\* to str a label becomes its decimal string (held as the label plus 10)
AsTypeValue(dtype, v) == IF dtype = "bool" THEN 1 ELSE IF dtype = "str" THEN v + 10 ELSE v

\* IndexHierarchyAsType.__call__ for the column key (zero-based)
astype(h, self0, key, dtype) ==
    LET self == Recached(h, self0)
        rows == self.blocks.rows
        blocks == [rows |-> [i \in 1 .. Len(rows) |->
                               [d \in 1 .. Len(rows[i]) |->
                                   IF d = key + 1 THEN AsTypeValue(dtype, rows[i][d])
                                   ELSE rows[i][d]]],
                   depth |-> self.blocks.depth]
        r == _from_type_blocks(h, self.kind, blocks, "None")
    IN IF key < 0 \/ key >= self.blocks.depth
       THEN Result(h, self, NoHier, <<>>, TRUE)
       ELSE Result(r.h, self, r.obj, <<>>, r.err)

\* IndexHierarchy.copy: the new instance is handed the levels of this one
IndexHierarchy_copy(h, self0) ==
    LET self == Recached(h, self0)
    IN Result(h, self,
              init_from_level(self.kind, self.levels, self.name, self.blocks),
              <<>>, FALSE)

\* IndexHierarchyGO.copy handing over "levels=self._levels"
IndexHierarchyGO_copy_shared(h, self0) ==
    LET self == Recached(h, self0)
    IN Result(h, self,
              init_from_level(self.kind, self.levels, self.name, self.blocks),
              <<>>, FALSE)

\* IndexHierarchyGO.copy: the new instance is handed a deep copy of the levels
IndexHierarchyGO_copy(h, self0) ==
    LET self == Recached(h, self0)
        levels == CopyLevel(h, self.levels, 0)
    IN Result(levels.h, self,
              init_from_level(self.kind, levels.id, self.name, self.blocks),
              <<>>, FALSE)

\* copy, as the class of the receiver resolves it
copy(h, self0) ==
    IF STATIC(self0.kind) THEN IndexHierarchy_copy(h, self0)
    ELSE IndexHierarchyGO_copy(h, self0)

\* add_level as a call
add_level_op(h, self, level) ==
    LET r == add_level(h, self, level)
    IN Result(r.h, self, r.obj, <<>>, FALSE)

\* drop_level as a call
drop_level_op(h, self, count) ==
    LET r == drop_level(h, self, count)
    IN Result(r.h, self, r.obj, <<>>, r.err)

\* --------------------------------------------- IndexLevelGO.append / extend
RECURSIVE NewChain(_, _, _, _)
\* the levels for key[d], ..., one label each, down to a leaf level
NewChain(h, key, d, offset) ==
    IF d = Len(key)
    THEN Alloc(h, [index |-> <<key[d]>>, leaf |-> TRUE, targets |-> <<>>,
                   offset |-> offset])
    ELSE LET c == NewChain(h, key, d + 1, 0)
         IN Alloc(c.h, [index |-> <<key[d]>>, leaf |-> FALSE,
                        targets |-> <<c.id>>, offset |-> offset])

RECURSIVE level_insert(_, _, _, _)
\* one leaf tuple is inserted into the tree: the labels of key that exist are
\* followed, the first label that does not exist is added to the index of its
\* level together with a new child, and the offsets of the levels after the
\* path are moved up by one so that child offsets stay contiguous
level_insert(h, id, key, d) ==
    LET p == IndexPos(h[id].index, key[d])
    IN IF h[id].leaf
       THEN [h EXCEPT ![id].index = Append(@, key[d])]
       ELSE IF p = 0
       THEN LET c == NewChain(h, key, d + 1, LevelLen(h, id))
            IN [c.h EXCEPT ![id].index = Append(@, key[d]),
                           ![id].targets = Append(@, c.id)]
       ELSE LET h1 == level_insert(h, h[id].targets[p], key, d + 1)
                after == {h[id].targets[q] : q \in (p + 1) .. Len(h[id].targets)}
            IN [k \in DOMAIN h1 |->
                  IF k \in after THEN [h1[k] EXCEPT !.offset = @ + 1] ELSE h1[k]]

\* IndexLevelGO.append: [h, err]; a key of another depth, or one already in
\* the tree, raises and leaves the tree as it was
level_append(h, id, key) ==
    IF Len(key) # LevelDepth(h, id) \/ level_contains(h, id, key, 1)
    THEN [h |-> h, err |-> TRUE]
    ELSE [h |-> level_insert(h, id, key, 1), err |-> FALSE]

RECURSIVE level_insert_rows(_, _, _, _)
level_insert_rows(h, id, rows, i) ==
    IF i > Len(rows) THEN h
    ELSE level_insert_rows(level_insert(h, id, rows[i], 1), id, rows, i + 1)

\* IndexLevelGO.extend: the other tree is merged into this one, leaf by leaf,
\* into levels of this tree; a tree of another depth, or one holding a tuple
\* this tree holds, raises and leaves the tree as it was
level_extend(h, id, other) ==
    LET rows == FlattenRows(h, other)
    IN IF LevelDepth(h, other) # LevelDepth(h, id)
          \/ \E i \in 1 .. Len(rows) : level_contains(h, id, rows[i], 1)
       THEN [h |-> h, err |-> TRUE]
       ELSE [h |-> level_insert_rows(h, id, rows, 1), err |-> FALSE]

\* append without "self._recache = True"
append_keeps_flag(h, self, value) ==
    LET r == level_append(h, self.levels, value)
    IN IF r.err THEN Result(h, self, NoHier, <<>>, TRUE)
       ELSE Result(r.h, self, NoHier, <<>>, FALSE)

\* append that marks the cache stale before the levels are asked
append_flags_first(h, self, value) ==
    LET r == level_append(h, self.levels, value)
        marked == [self EXCEPT !.recache = TRUE]
    IN IF r.err THEN Result(h, marked, NoHier, <<>>, TRUE)
       ELSE Result(r.h, marked, NoHier, <<>>, FALSE)

\* IndexHierarchyGO.append
append(h, self, value) ==
    LET r == level_append(h, self.levels, value)
    IN IF r.err THEN Result(h, self, NoHier, <<>>, TRUE)
       ELSE Result(r.h, [self EXCEPT !.recache = TRUE], NoHier, <<>>, FALSE)

\* extend that drops the cache it invalidates: "self._blocks = None"
extend_drops_cache(h, self, other) ==
    LET r == level_extend(h, self.levels, other.levels)
    IN IF r.err THEN Result(h, self, NoHier, <<>>, TRUE)
       ELSE Result(r.h, [self EXCEPT !.recache = TRUE, !.blocks = NoBlocks],
                   NoHier, <<>>, FALSE)

\* IndexHierarchyGO.extend
extend(h, self, other) ==
    LET r == level_extend(h, self.levels, other.levels)
    IN IF r.err THEN Result(h, self, NoHier, <<>>, TRUE)
       ELSE Result(r.h, [self EXCEPT !.recache = TRUE], NoHier, <<>>, FALSE)

\* __init__ given another hierarchy: [h, levels (the source, recached), obj]
init_from_hierarchy(h, kind, levels0, name) ==
    LET levels == Recached(h, levels0)
        own == IF STATIC(kind) /\ STATIC(levels.kind)
               THEN [h |-> h, id |-> levels.levels]
               ELSE CopyLevel(h, levels.levels, 0)
    IN [h |-> own.h, levels |-> levels,
        obj |-> [kind |-> kind, levels |-> own.id, blocks |-> levels.blocks,
                 recache |-> FALSE,
                 name |-> IF name = "None" /\ levels.name # "None"
                          THEN levels.name ELSE name]]

\* cls(hierarchy, name=name) as a call
construct(h, kind, levels, name) ==
    LET r == init_from_hierarchy(h, kind, levels, name)
    IN Result(r.h, r.levels, r.obj, <<>>, FALSE)

\* rename
rename(h, self0, name) ==
    construct(h, self0.kind, Recached(h, self0), name)

\* ================================================================ the machine
Kinds == {"IH", "IHGO"}

\* the rows of the tree an instance holds (not of its cache)
TreeRows(h, obj) == IF obj.kind \in Kinds THEN FlattenRows(h, obj.levels) ELSE <<>>

AllTreeRows(h, hs) == [i \in Hiers |-> TreeRows(h, hs[i])]

\* the record of a call: what was called on which instance with which
\* argument, whether it returned (ok) or raised, the instance it returned
\* (res), its result value (out), the instances and their trees before it, and
\* the number of calls so far
Call(op, self, other, ok, arg, res, out) ==
    [op |-> op, self |-> self, other |-> other, ok |-> ok, arg |-> arg,
     res |-> res, out |-> out, pre |-> hier, preRows |-> AllTreeRows(heap, hier),
     n |-> last.n + 1]

Init ==
    /\ heap = <<>>
    /\ hier = [i \in Hiers |-> NoHier]
    /\ last = [op |-> "init", self |-> 0, other |-> 0, ok |-> TRUE, arg |-> <<>>,
               res |-> 0, out |-> <<>>, pre |-> [i \in Hiers |-> NoHier],
               preRows |-> [i \in Hiers |-> <<>>], n |-> 0]

\* a call on instance i (0: a constructor) returns: the heap and the receiver
\* are as the call left them, a returned hierarchy is bound to j
Return(op, i, k, j, arg, r) ==
    LET bound == ~r.err /\ r.obj.kind # "none"
    IN /\ heap' = r.h
       /\ hier' = [m \in Hiers |-> IF m = i THEN r.self
                                   ELSE IF m = j /\ bound THEN r.obj
                                   ELSE hier[m]]
       /\ last' = Call(op, i, k, ~r.err, arg, IF bound THEN j ELSE 0, r.out)

Live(i) == hier[i].kind \in Kinds

Free(j) == hier[j].kind = "none"

\* the tuples of the depth of instance i
Keys(i) == TuplesOfDepth(LevelDepth(heap, hier[i].levels))

IlocKeys ==
    {<<>>, <<0>>, <<1>>, <<0, 1>>, <<1, 0>>, <<2>>, <<0, 0>>, <<0, 2>>, <<0, 2, 1>>}

Shifts == {-4, -1, 0, 1, 2, 4}

DTypes == {"bool", "str"}

Names == {"None", "n"}

\* the permutations of the depths 0 .. d - 1
DepthMaps(d) == {m \in [1 .. d -> 0 .. (d - 1)] : \A x, y \in 1 .. d : m[x] = m[y] => x = y}

\* the candidates handed to isin: tuples of the depth of instance i, tuples of
\* other lengths, and a label that is no iterable
Candidates(i) ==
    {[iterable |-> TRUE, items |-> t] : t \in Keys(i) \cup {<<>>, <<1>>, <<1, 1, 1, 1>>}}
    \cup {[iterable |-> FALSE, items |-> <<1>>]}

\* the callables handed to relabel
Callables == {"identity", "flip_first", "flip_last", "first_is_1", "swap_ends"}

\* the mappers handed to relabel: a callable, or a mapping of at most one pair
\* whose key is a row of instance i
Mappers(i) ==
    {[callable |-> TRUE, f |-> f, pairs |-> <<>>] : f \in Callables}
    \cup {[callable |-> FALSE, f |-> "none", pairs |-> m] :
            m \in {<<>>} \cup {<<<<k, v>>>> : k \in Range(TreeRows(heap, hier[i])),
                                              v \in Keys(i)}}

FromLabels(j, inputs) ==
    /\ Free(j)
    /\ \E kind \in Kinds, labels \in inputs :
          LET r == from_labels(heap, kind, labels, "None",
                               CONTINUATION_TOKEN_INACTIVE)
          IN Return("from_labels", 0, 0, j, labels,
                    Result(r.h, NoHier, r.obj, <<>>, r.err))

FromTypeBlocks(j, inputs) ==
    /\ Free(j)
    /\ \E kind \in Kinds, labels \in inputs :
          LET r == _from_type_blocks(heap, kind,
                                     [rows |-> labels, depth |-> Len(labels[1])],
                                     "None")
          IN Return("_from_type_blocks", 0, 0, j, labels,
                    Result(r.h, NoHier, r.obj, <<>>, r.err))

LenOf(i) == Live(i) /\ Return("len", i, 0, 0, <<>>, len(heap, hier[i]))

Iter(i) == Live(i) /\ Return("iter", i, 0, 0, <<>>, iter(heap, hier[i]))

Depth(i) == Live(i) /\ Return("depth", i, 0, 0, <<>>, depth(heap, hier[i]))

Shape(i) == Live(i) /\ Return("shape", i, 0, 0, <<>>, shape(heap, hier[i]))

Values(i) == Live(i) /\ Return("values", i, 0, 0, <<>>, values(heap, hier[i]))

Contains(i) ==
    /\ Live(i)
    /\ \E value \in Keys(i) :
          Return("contains", i, 0, 0, value, contains_op(heap, hier[i], value))

LocToIloc(i) ==
    /\ Live(i)
    /\ \E key \in Keys(i) :
          Return("loc_to_iloc", i, 0, 0, key, loc_to_iloc_op(heap, hier[i], key))

ExtractIloc(i, j) ==
    /\ Live(i) /\ Free(j)
    /\ \/ \E key \in 0 .. 2 :
             Return("_extract_iloc_int", i, 0, j, <<key>>,
                    _extract_iloc_int(heap, hier[i], key))
       \/ \E key \in IlocKeys :
             Return("_extract_iloc_list", i, 0, j, key,
                    _extract_iloc_list(heap, hier[i], key))

ExtractLoc(i) ==
    /\ Live(i)
    /\ \E key \in Keys(i) :
          Return("_extract_loc", i, 0, 0, key, _extract_loc(heap, hier[i], key))

DropIloc(i, j) ==
    /\ Live(i) /\ Free(j)
    /\ \E key \in IlocKeys :
          Return("_drop_iloc", i, 0, j, key, _drop_iloc(heap, hier[i], key))

DropLoc(i, j) ==
    /\ Live(i) /\ Free(j)
    /\ \E key \in Keys(i) :
          Return("_drop_loc", i, 0, j, key, _drop_loc(heap, hier[i], key))

Sort(i, j) ==
    /\ Live(i) /\ Free(j)
    /\ \E ascending \in BOOLEAN :
          Return("sort", i, 0, j, <<ascending>>, sort_op(heap, hier[i], ascending))

Isin(i) ==
    /\ Live(i)
    /\ \E other \in SeqsUpTo(Candidates(i), 2) :
          Return("isin", i, 0, 0, other, isin(heap, hier[i], other))

Roll(i, j) ==
    /\ Live(i) /\ Free(j)
    /\ \E shift \in Shifts :
          Return("roll", i, 0, j, <<shift>>, roll(heap, hier[i], shift))

Relabel(i, j) ==
    /\ Live(i) /\ Free(j)
    /\ \E mapper \in Mappers(i) :
          Return("relabel", i, 0, j, mapper, relabel(heap, hier[i], mapper))

Rehierarch(i, j) ==
    /\ Live(i) /\ Free(j)
    /\ \E depth_map \in DepthMaps(LevelDepth(heap, hier[i].levels)) :
          Return("rehierarch", i, 0, j, depth_map,
                 rehierarch(heap, hier[i], depth_map))

AsType(i, j) ==
    /\ Live(i) /\ Free(j)
    /\ \E key \in 0 .. 1, dtype \in DTypes :
          Return("astype", i, 0, j, <<key>>, astype(heap, hier[i], key, dtype))

Copy(i, j) ==
    Live(i) /\ Free(j) /\ Return("copy", i, 0, j, <<>>, copy(heap, hier[i]))

AddLevel(i, j) ==
    /\ Live(i) /\ Free(j)
    /\ \E level \in Labels :
          Return("add_level", i, 0, j, <<level>>,
                 add_level_op(heap, hier[i], level))

DropLevel(i, j) ==
    /\ Live(i) /\ Free(j)
    /\ \E count \in DropCounts :
          Return("drop_level", i, 0, j, <<count>>,
                 drop_level_op(heap, hier[i], count))

Construct(i, j) ==
    /\ Live(i) /\ Free(j)
    /\ \E kind \in Kinds :
          Return("construct", i, 0, j, <<kind>>,
                 construct(heap, kind, hier[i], "None"))

Rename(i, j) ==
    /\ Live(i) /\ Free(j)
    /\ \E name \in Names :
          Return("rename", i, 0, j, <<name>>, rename(heap, hier[i], name))

\* tuples that are not of the depth of instance i
OffDepthKeys(i) ==
    IF LevelDepth(heap, hier[i].levels) = 1 THEN {<<1, 1>>} ELSE {<<1>>}

AppendTuple(i) ==
    /\ hier[i].kind = "IHGO"
    /\ \E value \in Keys(i) \cup OffDepthKeys(i) :
          Return("append", i, 0, 0, value, append(heap, hier[i], value))

Extend(i, k) ==
    /\ hier[i].kind = "IHGO" /\ Live(k)
    /\ Return("extend", i, k, 0, <<>>, extend(heap, hier[i], hier[k]))

\* _from_type_blocks on a label matrix that may have no rows
FromBlocks(j, rows, depths) ==
    /\ Free(j)
    /\ \E kind \in Kinds, d \in depths :
          LET r == _from_type_blocks(heap, kind, [rows |-> rows, depth |-> d],
                                     "None")
          IN Return("_from_type_blocks", 0, 0, j, rows,
                    Result(r.h, NoHier, r.obj, <<d>>, r.err))

\* from_labels with a continuation token, with and without reordering
FromLabelsToken(j, inputs, tokens) ==
    /\ Free(j)
    /\ \E kind \in Kinds, labels \in inputs, token \in tokens, reorder \in BOOLEAN :
          LET r == from_labels_call(heap, kind, labels, "None", reorder, token)
          IN Return("from_labels_token", 0, 0, j,
                    [labels |-> labels, continuation_token |-> token,
                     reorder_for_hierarchy |-> reorder],
                    Result(r.h, NoHier, r.obj, <<>>, r.err))

FromIndexItems(j, inputs) ==
    /\ Free(j)
    /\ \E kind \in Kinds, items \in inputs :
          LET r == from_index_items(heap, kind, items)
          IN Return("from_index_items", 0, 0, j, items,
                    Result(r.h, NoHier, r.obj, <<>>, r.err))

FromProduct(j, inputs) ==
    /\ Free(j)
    /\ \E kind \in Kinds, levels \in inputs :
          LET r == from_product(heap, kind, levels, "None")
          IN Return("from_product", 0, 0, j, levels,
                    Result(r.h, NoHier, r.obj, <<>>, r.err))

FromTree(j, inputs) ==
    /\ Free(j)
    /\ \E kind \in Kinds, t \in inputs :
          LET r == from_tree(heap, kind, t.tree, t.depth, "None")
          IN Return("from_tree", 0, 0, j, <<t>>,
                    Result(r.h, NoHier, r.obj, <<>>, r.err))

\* ------------------------------------------- the builders, on their own
\* one hierarchy is built from a sequence of up to MaxRows tuples, perhaps
\* iterated, and then one operation derives a second hierarchy from it
Ready == last.op \in {"from_labels", "iter"} /\ Live(1) /\ Free(2)

BuildFromLabels == last.op = "init" /\ FromLabels(1, LabelSeqs)

BuildIter == last.op = "from_labels" /\ Iter(1)

BuildSort == Ready /\ Sort(1, 2)

BuildAddLevel == Ready /\ AddLevel(1, 2)

BuildDropLevel == Ready /\ DropLevel(1, 2)

BuildRoll == Ready /\ Roll(1, 2)

BuildExtractIloc == Ready /\ ExtractIloc(1, 2)

BuildExtractLoc == Ready /\ ExtractLoc(1)

BuildRelabel == Ready /\ Relabel(1, 2)

BuildRename == Ready /\ Rename(1, 2)

\* hierarchy.rename(name).relabel(mapper)
BuildRelabelRenamed ==
    last.op = "rename" /\ last.ok /\ last.arg = <<"n">> /\ Relabel(2, 3)

\* hierarchy.rename(name).rename(name)
BuildRenameAgain == last.op = "rename" /\ last.ok /\ last.self = 1 /\ Rename(2, 3)

\* hierarchy.add_level(level).drop_level(count)
BuildDropAdded == last.op = "add_level" /\ last.ok /\ DropLevel(2, 3)

NextBuild ==
    \/ BuildFromLabels \/ BuildIter \/ BuildSort \/ BuildAddLevel
    \/ BuildDropLevel \/ BuildRoll \/ BuildExtractIloc \/ BuildExtractLoc
    \/ BuildDropAdded
    \/ BuildRelabel \/ BuildRename \/ BuildRelabelRenamed \/ BuildRenameAgain

SpecBuild == Init /\ [][NextBuild]_vars

\* ------------------------------------------------------- the constructors
\* one constructor is called on any input; after from_labels on a label
\* matrix the columnar builder is called on the same matrix
RaggedDepths == 0 .. 3

\* sequences of tuples of any length, equal or not
RaggedLabelSeqs ==
    SeqsUpTo(UNION {TuplesOfDepth(d) : d \in RaggedDepths}, MaxRows)

\* every row has the length of the first
Uniform(labels) == \A i \in 1 .. Len(labels) : Len(labels[i]) = Len(labels[1])

\* the depths of a matrix: its width, any width when it has no rows
BlockDepths(labels) ==
    IF labels = <<>> THEN RaggedDepths \ {0} ELSE {Len(labels[1])}

\* the label sequences handed to from_product, with and without repeated labels
ProductLevels == SeqsUpTo(SeqsUpTo(Labels, 2), 3)

\* the trees handed to from_tree: a list, or a dictionary of lists
ListTrees == {[tree |-> (<<>> :> s), depth |-> 1] : s \in SeqsUpTo(Labels, 2)}

DictTrees ==
    UNION {{[tree |-> (<<>> :> k) @@ [p \in {<<x>> : x \in Range(k)} |-> f[p[1]]],
             depth |-> 2] : f \in [Range(k) -> SeqsUpTo(Labels, 2)]}
           : k \in {q \in SeqsUpTo(Labels, 2) : ~HasDup(q)}}

ConsFromLabels == last.op = "init" /\ FromLabels(1, RaggedLabelSeqs)

ConsFromTypeBlocks ==
    /\ last.op = "from_labels" /\ Uniform(last.arg)
    /\ FromBlocks(2, last.arg, BlockDepths(last.arg))

\* the label 2 is the continuation token
ConsFromLabelsToken == last.op = "init" /\ FromLabelsToken(1, LabelSeqs, {2})

\* the pairs of a label and an index handed to from_index_items
IndexItems ==
    SeqsUpTo(Labels \X {q \in SeqsUpTo(Labels, 2) : ~HasDup(q)}, 2)

ConsFromIndexItems == last.op = "init" /\ FromIndexItems(1, IndexItems)

ConsFromProduct == last.op = "init" /\ FromProduct(1, ProductLevels)

ConsFromTree == last.op = "init" /\ FromTree(1, ListTrees \cup DictTrees)

NextCons ==
    \/ ConsFromLabels \/ ConsFromTypeBlocks \/ ConsFromProduct \/ ConsFromTree
    \/ ConsFromLabelsToken \/ ConsFromIndexItems

SpecCons == Init /\ [][NextCons]_vars

\* ------------------------------------------- every operation, called once
\* one hierarchy is built from a sequence of up to OpsRows tuples, perhaps
\* iterated (so that its cache is valid), and then one operation is called
OpsLabelSeqs == UNION {SeqsUpTo(TuplesOfDepth(d), OpsRows) : d \in Depths}

OpsFromLabels == last.op = "init" /\ FromLabels(1, OpsLabelSeqs)

OpsIter == last.op = "from_labels" /\ Iter(1)

NextOps ==
    \/ OpsFromLabels
    \/ OpsIter
    \/ Ready /\ LenOf(1)
    \/ Ready /\ Depth(1)
    \/ Ready /\ Shape(1)
    \/ Ready /\ Values(1)
    \/ Ready /\ Contains(1)
    \/ Ready /\ LocToIloc(1)
    \/ Ready /\ ExtractIloc(1, 2)
    \/ Ready /\ ExtractLoc(1)
    \/ Ready /\ DropIloc(1, 2)
    \/ Ready /\ DropLoc(1, 2)
    \/ Ready /\ Sort(1, 2)
    \/ Ready /\ Isin(1)
    \/ Ready /\ Roll(1, 2)
    \/ Ready /\ Relabel(1, 2)
    \/ Ready /\ Rehierarch(1, 2)
    \/ Ready /\ AsType(1, 2)
    \/ Ready /\ Copy(1, 2)
    \/ Ready /\ AddLevel(1, 2)
    \/ Ready /\ DropLevel(1, 2)

SpecOps == Init /\ [][NextOps]_vars

\* ------------------------------------------- growable hierarchies
\* up to MaxSteps calls on the instances alive: hierarchies are built from the
\* seeds, derived from one another, grown by append and extend, and read
Seeds ==
    {<<<<1, 1>>>>, <<<<2, 2>>>>, <<<<1, 1>>, <<2, 1>>>>, <<<<1, 1>>, <<1, 2>>>>}

Going == last.n < MaxSteps

\* the instances of the growable machine
GrowHiers == {1, 2}

\* the slot a new instance is bound to
FreeSlot(j) == Free(j) /\ \A m \in GrowHiers : m < j => ~Free(m)

NextGrow ==
    \/ Going /\ \E j \in GrowHiers : FreeSlot(j) /\ FromLabels(j, Seeds \cup {<<>>})
    \/ Going /\ \E j \in GrowHiers : FreeSlot(j) /\ FromTypeBlocks(j, Seeds)
    \/ Going /\ \E i, j \in GrowHiers : FreeSlot(j) /\ Construct(i, j)
    \/ Going /\ \E i, j \in GrowHiers : FreeSlot(j) /\ Copy(i, j)
    \/ Going /\ \E i, j \in GrowHiers : FreeSlot(j) /\ Rename(i, j)
    \/ Going /\ \E i, j \in GrowHiers : FreeSlot(j) /\ AddLevel(i, j)
    \/ Going /\ \E i, j \in GrowHiers : FreeSlot(j) /\ DropLevel(i, j)
    \/ Going /\ \E i \in GrowHiers : AppendTuple(i)
    \/ Going /\ \E i, k \in GrowHiers : Extend(i, k)
    \/ Going /\ \E i \in GrowHiers : Iter(i)
    \/ Going /\ \E i \in GrowHiers : LenOf(i)
    \/ Going /\ \E i \in GrowHiers : Contains(i)

Spec == Init /\ [][NextGrow]_vars

\* --------------------------- growable hierarchies derived by drop_level
\* seeds of depth 3 with two root labels
DeepSeeds ==
    {<<<<1, 1, 1>>, <<2, 2, 1>>>>, <<<<1, 1, 1>>, <<2, 1, 1>>>>,
     <<<<1, 1, 1>>, <<1, 2, 1>>, <<2, 2, 1>>>>}

\* the first instance is built from a deep seed, the second is derived from it
\* by drop_level; both are grown by append and extend, and read
NextDeep ==
    \/ last.op = "init" /\ FromLabels(1, DeepSeeds)
    \/ Going /\ FreeSlot(2) /\ DropLevel(1, 2)
    \/ Going /\ \E i \in GrowHiers : AppendTuple(i)
    \/ Going /\ \E i, k \in GrowHiers : Extend(i, k)
    \/ Going /\ \E i \in GrowHiers : Iter(i)
    \/ Going /\ \E i \in GrowHiers : Contains(i)

SpecDeep == Init /\ [][NextDeep]_vars

\* ================================================================= claims
IsHierarchy(i) == hier[i].kind \in Kinds

\* the position (one-based) of a row in a sequence of rows, 0 when absent
RowPos(rows, t) ==
    IF \E k \in 1 .. Len(rows) : rows[k] = t
    THEN CHOOSE k \in 1 .. Len(rows) : rows[k] = t
    ELSE 0

\* a closed group reopens: at an intermediate depth d a label reappears under
\* the same parent prefix after a different label was seen under that parent
Reopens(labels) ==
    \E i, j, k \in 1 .. Len(labels) :
        /\ i < j /\ j < k
        /\ \E d \in 1 .. Len(labels[1]) - 1 :
              /\ SubSeq(labels[i], 1, d - 1) = SubSeq(labels[j], 1, d - 1)
              /\ SubSeq(labels[i], 1, d - 1) = SubSeq(labels[k], 1, d - 1)
              /\ labels[i][d] = labels[k][d]
              /\ labels[i][d] # labels[j][d]

FromLabelsCalled == last.op = "from_labels" /\ last.arg # <<>>

\* C1 as stated: from_labels raises exactly when a closed group reopens at an
\* intermediate depth; every sequence with contiguous groups is accepted
C1_AsStated == FromLabelsCalled => (last.ok <=> ~Reopens(last.arg))

\* C1 amended: from_labels raises exactly when a closed group reopens at an
\* intermediate depth or the same tuple occurs twice in the input (the leaf
\* index of its parent rejects the repeated label)
C1_Adjacency ==
    FromLabelsCalled => (last.ok <=> (~Reopens(last.arg) /\ ~HasDup(last.arg)))

\* the example of the specification, [(A,1,x),(B,1,y),(A,2,z)], was rejected
C1_Witness ==
    /\ last.op = "from_labels"
    /\ last.arg = <<<<1, 1, 1>>, <<2, 1, 2>>, <<1, 2, 1>>>>
    /\ ~last.ok

\* C2: iterating the hierarchy from_labels returned yields the input tuples in
\* the input order
C2_RoundTrip ==
    (last.op = "from_labels" /\ last.ok) => iter_rows(heap, hier[1]) = last.arg

C2_Witness ==
    /\ last.op = "from_labels" /\ last.ok
    /\ last.arg = <<<<1, 2, 2>>, <<1, 2, 1>>, <<2, 1, 1>>>>
    /\ iter_rows(heap, hier[1]) = last.arg

\* loc_to_iloc on instance i: a row of the tree resolves to its position in
\* the flattened rows, any other tuple of the tree's depth raises
LocResolves(i) ==
    LET rows == TreeRows(heap, hier[i])
    IN \A t \in TuplesOfDepth(LevelDepth(heap, hier[i].levels)) :
          LET r == loc_to_iloc(heap, hier[i], t)
          IN IF RowPos(rows, t) # 0
             THEN r.ok /\ r.pos = RowPos(rows, t) - 1
             ELSE ~r.ok

\* C3: for every hierarchy and every full-depth tuple, loc_to_iloc returns the
\* row position of a present tuple and raises for an absent one
C3_LocToIloc == \A i \in Hiers : IsHierarchy(i) => LocResolves(i)

\* ------------------------------------------------------------------- C5
GrowOps == {"append", "extend"}

\* the accessors of the growable machine that need the cache
Accessors == {"iter", "len"}

\* C5: a successful append or extend leaves the flag stale and the cache
\* object as it was; an accessor called on a stale instance has rebuilt the
\* cache from the tree and left the flag valid
C5_Invalidate ==
    /\ (last.op \in GrowOps /\ last.ok) =>
          /\ hier[last.self].recache
          /\ hier[last.self].blocks = last.pre[last.self].blocks
    /\ (last.op \in Accessors /\ last.pre[last.self].recache) =>
          /\ ~hier[last.self].recache
          /\ hier[last.self].blocks = to_type_blocks(heap, hier[last.self].levels)

\* an append on an instance with a valid, materialized cache: the cache is
\* still the old one and no longer the flattening of the tree
C5_Witness ==
    /\ last.op = "append" /\ last.ok
    /\ ~last.pre[last.self].recache
    /\ last.pre[last.self].blocks.rows = <<<<1, 1>>, <<2, 1>>>>
    /\ hier[last.self].recache
    /\ hier[last.self].blocks.rows # TreeRows(heap, hier[last.self])

\* ------------------------------------------------------------------- C6
\* C6: whenever the flag of an instance says valid, its cache is present and
\* is the depth-first flattening of its tree, and its row count is the leaf
\* count of the tree
C6_Coherent ==
    \A i \in Hiers :
        (Live(i) /\ ~hier[i].recache) =>
            /\ hier[i].blocks # NoBlocks
            /\ hier[i].blocks = to_type_blocks(heap, hier[i].levels)
            /\ Len(hier[i].blocks.rows) = LevelLen(heap, hier[i].levels)

\* a cache rebuilt after an append that had made it stale
C6_Witness ==
    /\ last.op = "len" /\ last.out = <<3>>
    /\ last.pre[last.self].recache
    /\ Len(last.pre[last.self].blocks.rows) = 2
    /\ ~hier[last.self].recache
    /\ hier[last.self].blocks.rows = TreeRows(heap, hier[last.self])

\* ------------------------------------------------------------------- C7
RECURSIVE Nodes(_, _)
RECURSIVE NodesOf(_, _, _)
\* the levels of the tree under a level
Nodes(h, id) == {id} \cup NodesOf(h, h[id].targets, 1)

NodesOf(h, targets, i) ==
    IF i > Len(targets) THEN {}
    ELSE Nodes(h, targets[i]) \cup NodesOf(h, targets, i + 1)

\* C7: no level of the tree of a growable instance is a level of the tree of
\* another instance, and an append or extend on one instance leaves every
\* other instance, its tree and its rows as they were
C7_NoSharing ==
    /\ \A i, j \in Hiers :
          (i # j /\ Live(i) /\ Live(j) /\ "IHGO" \in {hier[i].kind, hier[j].kind})
             => Nodes(heap, hier[i].levels) \cap Nodes(heap, hier[j].levels) = {}
    /\ last.op \in GrowOps =>
          \A j \in Hiers \ {last.self} :
              /\ hier[j] = last.pre[j]
              /\ TreeRows(heap, hier[j]) = last.preRows[j]
              /\ \A t \in Range(last.preRows[j]) : contains(heap, hier[j], t)

\* instance 2 was renamed from growable instance 1, which then grew by one
\* tuple: instance 2 still has the rows instance 1 had
C7_Witness ==
    /\ last.op = "append" /\ last.ok /\ last.self = 1
    /\ hier[1].kind = "IHGO" /\ hier[2].kind = "IHGO" /\ hier[2].name = "n"
    /\ TreeRows(heap, hier[2]) = last.preRows[1]
    /\ Len(TreeRows(heap, hier[1])) = Len(TreeRows(heap, hier[2])) + 1

\* ------------------------------------------------------------------- C8
\* C8: append(t) of a tuple t that is not a row: iteration yields the rows
\* there were followed by t, the length is one more, and t is contained
C8_AppendLast ==
    (last.op = "append" /\ last.ok) =>
        /\ iter_rows(heap, hier[last.self]) = Append(last.preRows[last.self], last.arg)
        /\ LevelLen(heap, hier[last.self].levels) = Len(last.preRows[last.self]) + 1
        /\ contains(heap, hier[last.self], last.arg)

\* ------------------------------------------------------------------- C9
\* C9: a.extend(b), b of the depth of a and with no row of a: iteration of a
\* yields the rows of a followed by the rows of b, and b is as it was
C9_ExtendAfter ==
    (/\ last.op = "extend" /\ last.self # last.other
     /\ Range(last.preRows[last.self]) \cap Range(last.preRows[last.other]) = {}
     /\ LevelDepth(heap, last.pre[last.self].levels)
           = LevelDepth(heap, last.pre[last.other].levels)) =>
        /\ last.ok
        /\ iter_rows(heap, hier[last.self])
              = last.preRows[last.self] \o last.preRows[last.other]
        /\ hier[last.other] = last.pre[last.other]
        /\ TreeRows(heap, hier[last.other]) = last.preRows[last.other]

\* ------------------------------------------------------------------- C4
\* the public operations the claim lists
ListedOps ==
    {"len", "iter", "depth", "shape", "values", "contains", "loc_to_iloc",
     "_extract_loc", "_extract_iloc_int", "_extract_iloc_list", "sort", "isin", "roll", "_drop_iloc",
     "_drop_loc", "relabel", "rehierarch", "add_level", "drop_level", "astype",
     "copy"}

\* the operations that work on the tree of levels and never look at the cache
TreeOps == {"contains", "loc_to_iloc", "add_level", "drop_level"}

\* a listed operation was called on a stale receiver and returned
StaleCall == last.op \in ListedOps /\ last.ok /\ last.pre[1].recache

CacheValid(i) ==
    /\ ~hier[i].recache
    /\ hier[i].blocks = to_type_blocks(heap, hier[i].levels)

\* C4 as stated: every listed operation called while the flag says stale has
\* rebuilt the cache, and the flag is valid, when it returns
C4_AsStated == StaleCall => CacheValid(1)

\* C4 amended: every listed operation other than __contains__, loc_to_iloc,
\* add_level and drop_level, called while the flag says stale, has rebuilt the
\* cache and left the flag valid when it returns; those four read the tree of
\* levels directly and leave the flag stale and the cache as it was
C4_Recache ==
    StaleCall => IF last.op \in TreeOps THEN hier[1] = last.pre[1]
                 ELSE CacheValid(1)

C4_Witness ==
    /\ last.op = "roll" /\ last.ok /\ last.pre[1].recache
    /\ last.pre[1].blocks = NoBlocks
    /\ CacheValid(1) /\ Len(hier[1].blocks.rows) = 2

\* ------------------------------------------------------------------ C10
\* tuple a is before tuple b when compared depth 0 first
TupleLess(a, b) ==
    \E d \in 1 .. Len(a) : a[d] < b[d] /\ \A e \in 1 .. (d - 1) : a[e] = b[e]

\* tuple a is before tuple b when compared last depth first
TupleLessBackward(a, b) ==
    \E d \in 1 .. Len(a) : a[d] < b[d] /\ \A e \in (d + 1) .. Len(a) : a[e] = b[e]

SameRows(r, s) == Len(r) = Len(s) /\ Range(r) = Range(s)

SortReturned == last.op = "sort" /\ last.ok

SortedRows == iter_rows(heap, hier[last.res])

\* C10 as stated: the rows of the sorted hierarchy are those of the receiver,
\* in increasing order when compared last depth first
C10_AsStated ==
    (SortReturned /\ last.arg[1]) =>
        /\ SameRows(SortedRows, last.preRows[1])
        /\ \A k \in 1 .. (Len(SortedRows) - 1) :
              TupleLessBackward(SortedRows[k], SortedRows[k + 1])

\* C10 amended: sort() of a hierarchy whose cache has two or more columns
\* returns a new hierarchy holding the same rows ordered lexicographically with
\* depth 0 as the primary key and ties broken by the later depths, in
\* decreasing order when ascending is False; on the hierarchy of
\* from_labels of no labels, whose cache has one column, sort() raises
C10_Sorted ==
    last.op = "sort" =>
        IF LevelDepth(heap, last.pre[1].levels) < 2 THEN ~last.ok
        ELSE /\ last.ok
             /\ last.res # last.self
             /\ SameRows(SortedRows, last.preRows[1])
             /\ \A k \in 1 .. (Len(SortedRows) - 1) :
                   IF last.arg[1]
                   THEN TupleLess(SortedRows[k], SortedRows[k + 1])
                   ELSE TupleLess(SortedRows[k + 1], SortedRows[k])

C10_Witness ==
    /\ SortReturned /\ last.arg[1]
    /\ last.preRows[1] = <<<<2, 1>>, <<1, 2>>, <<1, 1>>>>
    /\ SortedRows = <<<<1, 1>>, <<1, 2>>, <<2, 1>>>>

\* ------------------------------------------------------------------ C11
\* the rows of the hierarchy sort returns for the receiver of the last call
SortRowsOf(ascending) ==
    LET r == sort(heap, last.pre[1], ascending)
    IN iter_rows(r.h, r.obj)

Rolled(shift) ==
    LET rows == last.preRows[1]
        n == Len(rows)
    IN [i \in 1 .. n |-> rows[((i - 1 - shift) % n) + 1]]

RolledRows == iter_rows(heap, hier[last.res])

RollCalled == last.op = "roll" /\ LevelDepth(heap, last.pre[1].levels) >= 2

\* C12 as stated: for every hierarchy and every shift roll returns a hierarchy
\* whose row i is row (i - shift) mod n of the receiver
C12_AsStated ==
    RollCalled => (last.ok /\ RolledRows = Rolled(last.arg[1]))

\* C12 amended: roll(shift) on a hierarchy of depth two or more hands the rows
\* rotated by shift with wrapping to the columnar builder: it returns a
\* hierarchy of these rows, with the name of the receiver, when no group of
\* the rotated rows reopens, and raises the build error otherwise; on the
\* hierarchy of from_labels over no labels roll raises
C12_Roll ==
    last.op = "roll" =>
        IF ~RollCalled THEN ~last.ok
        ELSE /\ last.ok <=> ~Reopens(Rolled(last.arg[1]))
             /\ last.ok => /\ RolledRows = Rolled(last.arg[1])
                           /\ Len(RolledRows) = Len(last.preRows[1])
                           /\ hier[last.res].name = last.pre[1].name
                           /\ hier[last.res].kind = last.pre[1].kind

\* roll(1) on [r0, r1, r2] gave [r2, r0, r1]
C12_Witness ==
    /\ last.op = "roll" /\ last.ok /\ last.arg = <<1>>
    /\ last.preRows[1] = <<<<1, 1>>, <<1, 2>>, <<2, 1>>>>
    /\ RolledRows = <<<<2, 1>>, <<1, 1>>, <<1, 2>>>>

\* ------------------------------------------------------------------ C13
\* the rows of the receiver of the last call at the positions of its key
Selected ==
    [k \in 1 .. Len(last.arg) |-> last.preRows[1][last.arg[k] + 1]]

ValidPositions ==
    \A k \in 1 .. Len(last.arg) :
        last.arg[k] >= 0 /\ last.arg[k] < Len(last.preRows[1])

ExtractedRows == iter_rows(heap, hier[last.res])

ListExtract ==
    /\ last.op = "_extract_iloc_list"
    /\ LevelDepth(heap, last.pre[1].levels) >= 2
    /\ ValidPositions

\* h[i] returns the tuple of row i when there is a row i
IntExtractOk ==
    last.op = "_extract_iloc_int" =>
        /\ last.ok <=> last.arg[1] < Len(last.preRows[1])
        /\ last.ok => /\ last.out = last.preRows[1][last.arg[1] + 1]
                      /\ last.res = 0

\* h.loc[k] is h[loc_to_iloc(k)]: it raises when k is no row, and is the
\* tuple k otherwise
LocExtractOk ==
    last.op = "_extract_loc" =>
        LET r == loc_to_iloc(heap, last.pre[1], last.arg)
        IN /\ last.ok <=> r.ok
           /\ last.ok => /\ last.out = last.arg
                         /\ last.out = last.preRows[1][r.pos + 1]

\* C13 as stated: h[i] is the tuple of row i, h[key] for a list of valid
\* positions is a new hierarchy with the name of h and the selected rows in
\* the order of the key, and h.loc[k] is h[loc_to_iloc(k)]
C13_AsStated ==
    /\ IntExtractOk
    /\ LocExtractOk
    /\ ListExtract => /\ last.ok
                      /\ ExtractedRows = Selected
                      /\ hier[last.res].name = last.pre[1].name

\* C13 amended: as stated, but h[key] for a list of valid positions returns
\* the new hierarchy only when the selected rows, in the order of the key, are
\* pairwise distinct and no group of them reopens; otherwise the columnar
\* builder raises
C13_Extract ==
    /\ IntExtractOk
    /\ LocExtractOk
    /\ ListExtract =>
          /\ last.ok <=> (~HasDup(Selected) /\ ~Reopens(Selected))
          /\ last.ok => /\ ExtractedRows = Selected
                        /\ hier[last.res].name = last.pre[1].name
                        /\ hier[last.res].kind = last.pre[1].kind

\* two rows taken out of three, in the order of the key
C13_Witness ==
    /\ last.op = "_extract_iloc_list" /\ last.ok /\ last.arg = <<0, 2>>
    /\ last.preRows[1] = <<<<1, 1>>, <<1, 2>>, <<2, 1>>>>
    /\ ExtractedRows = <<<<1, 1>>, <<2, 1>>>>

\* ------------------------------------------------------------------ C14
\* C14: isin raises when a candidate is not iterable; otherwise it returns one
\* boolean for each row, true exactly at the rows that are equal to a
\* candidate whose length is the depth (all False when there is none)
C14_Isin ==
    last.op = "isin" =>
        LET rows == last.preRows[1]
            d == Recached(heap, last.pre[1]).blocks.depth
        IN /\ last.ok <=> \A k \in 1 .. Len(last.arg) : last.arg[k].iterable
           /\ last.ok =>
                 /\ Len(last.out) = Len(rows)
                 /\ \A i \in 1 .. Len(rows) :
                       last.out[i] <=>
                          \E k \in 1 .. Len(last.arg) :
                              /\ Len(last.arg[k].items) = d
                              /\ last.arg[k].items = rows[i]

\* a candidate of another length was passed over and the second row matched
C14_Witness ==
    /\ last.op = "isin" /\ last.ok
    /\ last.preRows[1] = <<<<1, 1>>, <<1, 2>>>>
    /\ last.arg = <<[iterable |-> TRUE, items |-> <<1>>],
                    [iterable |-> TRUE, items |-> <<1, 2>>]>>
    /\ last.out = <<FALSE, TRUE>>

\* ------------------------------------------------------------------ C15
\* the rows and the depth of what a call returned, a hierarchy or an Index
RowsOf(i) == FlattenRows(heap, hier[i].levels)

DepthOf(i) == LevelDepth(heap, hier[i].levels)

Unchanged(i) == hier[i] = last.pre[i] /\ TreeRows(heap, hier[i]) = last.preRows[i]

RECURSIVE Distinct(_)
\* a sequence without the repetitions of an element, in first-occurrence order
Distinct(s) ==
    IF s = <<>> THEN <<>>
    ELSE LET t == Distinct(SubSeq(s, 1, Len(s) - 1))
         IN IF s[Len(s)] \in Range(t) THEN t ELSE Append(t, s[Len(s)])

\* the paths of the tree from the root down to depth k - 1
Prefixes(rows, k) == Distinct([i \in 1 .. Len(rows) |-> SubSeq(rows[i], 1, k)])

\* the rows without their n leaf-side labels
PeelLeaf(rows, n) == Prefixes(rows, Len(rows[1]) - n)

\* the rows without their n root-side labels
PeelRoot(rows, n) ==
    [i \in 1 .. Len(rows) |-> SubSeq(rows[i], n + 1, Len(rows[i]))]

\* the labels of depth k over all the levels of that depth, in tree order
LabelsAtDepth(rows, k) ==
    LET p == Prefixes(rows, k + 1) IN [i \in 1 .. Len(p) |-> p[i][k + 1]]

Min(a, b) == IF a < b THEN a ELSE b

Abs(a) == IF a < 0 THEN -a ELSE a

\* a drop_level call on a hierarchy with at least one row
DropCalled == last.op = "drop_level" /\ last.preRows[last.self] # <<>>

DropCount == last.arg[1]

DropDepth == Len(last.preRows[last.self][1])

\* the number of levels a count removes: one level always stays
DropPeeled == Min(Abs(DropCount), DropDepth - 1)

\* what a call that did not raise returned: an Index at depth 1, a hierarchy
\* of the receiver's class and name above it
DropReturned ==
    /\ last.res # 0
    /\ DepthOf(last.res) = DropDepth - DropPeeled
    /\ IF DropPeeled = DropDepth - 1
       THEN hier[last.res].kind = "Index"
       ELSE /\ hier[last.res].kind = hier[last.self].kind
            /\ hier[last.res].name = hier[last.self].name
    /\ Unchanged(last.self)

ConstructorOps == {"from_labels", "from_product", "from_tree", "_from_type_blocks"}

\* a constructor returned a hierarchy
Constructed == last.op \in ConstructorOps /\ last.ok /\ last.res # 0

\* the value of the depth property of instance i
DepthProperty(i) == depth(heap, hier[i]).out[1]

\* C17: every hierarchy a constructor returns has depth at least 2
C17_MinDepth == Constructed => DepthProperty(last.res) >= 2

\* ------------------------------------------------------------------ C18
\* the value of len() of instance i
LenProperty(i) == len(heap, hier[i]).out[1]

\* C18: from_labels raises when a tuple's length differs from the first
\* tuple's, and a hierarchy it returns has the depth of the first tuple and one
\* row for each tuple
C18_UniformDepth ==
    FromLabelsCalled =>
       /\ ~Uniform(last.arg) => ~last.ok
       /\ last.ok => /\ DepthProperty(last.res) = Len(last.arg[1])
                     /\ LenProperty(last.res) = Len(last.arg)

\* ------------------------------------------------------------------ C19
RECURSIVE TreeOf(_, _)
\* a level tree as a value: the index and the offset of every level
TreeOf(h, id) ==
    [index |-> h[id].index, offset |-> h[id].offset, leaf |-> h[id].leaf,
     targets |-> [i \in 1 .. Len(h[id].targets) |-> TreeOf(h, h[id].targets[i])]]

\* from_labels was called on a label matrix (instance 1 is what it returned)
\* and then _from_type_blocks on the same matrix
BothBuilt == last.op = "_from_type_blocks" /\ last.n = 2 /\ Uniform(last.arg)

\* both builders returned, with the same depth, rows and levels
SameBuild ==
    /\ Live(1) /\ last.ok
    /\ DepthProperty(1) = DepthProperty(2)
    /\ RowsOf(1) = RowsOf(2)
    /\ iter_rows(heap, hier[1]) = iter_rows(heap, hier[2])
    /\ TreeOf(heap, hier[1].levels) = TreeOf(heap, hier[2].levels)

BothReject == ~Live(1) /\ ~last.ok

\* C19 as the claim states it: on every matrix, one with zero rows included,
\* both builders reject or both build the same tree
C19_AsStated == BothBuilt => (SameBuild \/ BothReject)

\* C19: on every matrix with at least one row, both builders reject or both
\* build trees of the same depth, rows and per-level offsets
C19_SameBuild == (BothBuilt /\ last.arg # <<>>) => (SameBuild \/ BothReject)

\* both builders built [(1,1),(1,2),(2,1)], or both rejected [(1,1),(2,1),(1,2)]
C19_Witness ==
    /\ BothBuilt
    /\ \/ last.arg = <<<<1, 1>>, <<1, 2>>, <<2, 1>>>> /\ SameBuild
       \/ last.arg = <<<<1, 1, 1>>, <<2, 1, 1>>, <<1, 2, 1>>>> /\ BothReject

\* ------------------------------------------------------------------ C20
RECURSIVE Product(_)
\* the cartesian product of label sequences, the first varying slowest
Product(levels) ==
    IF levels = <<>> THEN <<<<>>>>
    ELSE LET first == Head(levels)
             rest == Product(Tail(levels))
             n == Len(rest)
         IN [k \in 1 .. Len(first) * n |->
                <<first[((k - 1) \div n) + 1]>> \o rest[((k - 1) % n) + 1]]

RECURSIVE Cardinal(_)
\* |L0| * ... * |Lk|
Cardinal(levels) ==
    IF levels = <<>> THEN 1 ELSE Len(Head(levels)) * Cardinal(Tail(levels))

ProductCalled == last.op = "from_product"

DuplicateFree(levels) == \A i \in 1 .. Len(levels) : ~HasDup(levels[i])

\* the tree has a path from the root to a leaf level: no sequence above the
\* innermost is empty (the Level data model gives no depth to a tree without)
ReachesLeaf(levels) == \A i \in 1 .. Len(levels) - 1 : levels[i] # <<>>

DerivedOps ==
    {"sort", "roll", "_drop_iloc", "_drop_loc", "relabel", "rehierarch", "astype",
     "_extract_iloc_int", "_extract_iloc_list", "_extract_loc", "add_level",
     "drop_level"}

\* the receiver i is after the step what it was before it, but for a stale
\* cache that was rebuilt
SourceKept(i) ==
    /\ hier'[i].kind = hier[i].kind
    /\ hier'[i].name = hier[i].name
    /\ hier'[i].levels = hier[i].levels
    /\ TreeOf(heap', hier'[i].levels) = TreeOf(heap, hier[i].levels)
    /\ FlattenRows(heap', hier'[i].levels) = FlattenRows(heap, hier[i].levels)
    /\ len(heap', hier'[i]).out = len(heap, hier[i]).out
    /\ \/ hier'[i] = hier[i]
       \/ hier[i].recache /\ hier'[i] = _update_array_cache(heap, hier[i])

\* the hierarchy the step returned has a root that is no level of the receiver
NewTree(i) ==
    (last'.ok /\ last'.res # 0) =>
        hier'[last'.res].levels \notin Nodes(heap, hier[i].levels)

\* C21: a derived operation, whether it returns or raises, leaves its source
\* with the same tree, rows, length and name (a stale cache may have become
\* valid), and what it returns is a newly built tree
C21_SourceKept ==
    [][last'.op \in DerivedOps => SourceKept(last'.self) /\ NewTree(last'.self)]_vars

\* a derived operation raised on a stale growable source of depth 3, and
\* another returned a hierarchy
C21_Witness ==
    /\ last.op \in DerivedOps /\ last.self = 1
    /\ hier[1].kind = "IHGO" /\ last.pre[1].recache
    /\ RowsOf(1) = <<<<1, 1, 1>>, <<2, 1, 1>>>>
    /\ \/ last.op = "drop_level" /\ last.arg = <<1>> /\ ~last.ok
       \/ last.op = "_drop_iloc" /\ last.arg = <<0>> /\ last.ok /\ last.res = 2

\* ------------------------------------------------------------------ C22
RelabelCalled == last.op = "relabel"

\* the rows of the source with the mapper applied, in the source's order
RelabelledRows ==
    [i \in 1 .. Len(last.preRows[last.self]) |->
        Relabelled(last.arg, last.preRows[last.self][i])]

RelabelReturned ==
    /\ last.res # 0
    /\ RowsOf(last.res) = RelabelledRows
    /\ iter_rows(heap, hier[last.res]) = RelabelledRows
    /\ LenProperty(last.res) = Len(last.preRows[last.self])
    /\ hier[last.res].name = hier[last.self].name
    /\ hier[last.res].kind = hier[last.self].kind

TokenCalled == last.op = "from_labels_token"

RECURSIVE FillForward(_, _, _)
\* the first i rows with every token replaced by the value of the row before
\* at the same depth
FillForward(labels, token, i) ==
    IF i = 0 THEN <<>>
    ELSE LET done == FillForward(labels, token, i - 1)
         IN Append(done,
                   [d \in 1 .. Len(labels[i]) |->
                       IF labels[i][d] = token /\ i > 1 THEN done[i - 1][d]
                       ELSE labels[i][d]])

\* the token stands in no place of the rows
TokenFree(rows, token) ==
    \A i \in 1 .. Len(rows) : \A d \in 1 .. Len(rows[i]) : rows[i][d] # token

\* C23: the rows of a hierarchy built with a continuation token are the input
\* rows with every token, at the leaf depth too, filled forward, and hold
\* neither the token nor the sentinel; with reorder_for_hierarchy the call raises
C23_Continuation ==
    (TokenCalled /\ last.arg.labels # <<>>
        /\ TokenFree(<<last.arg.labels[1]>>, last.arg.continuation_token)) =>
       /\ last.arg.reorder_for_hierarchy => ~last.ok
       /\ last.ok =>
             /\ RowsOf(last.res)
                   = FillForward(last.arg.labels, last.arg.continuation_token,
                                 Len(last.arg.labels))
             /\ TokenFree(RowsOf(last.res), last.arg.continuation_token)
             /\ TokenFree(RowsOf(last.res), TOKEN)

\* ------------------------------------------------------------------ C24
\* C24: rename(name) returns a hierarchy named name, None included, with the
\* rows of the source, and leaves the source's name and rows as they were; a
\* hierarchy constructed from another without a name takes the source's name
C24_Rename ==
    /\ last.op = "rename" =>
          /\ last.ok /\ last.res # 0
          /\ hier[last.res].name = last.arg[1]
          /\ RowsOf(last.res) = last.preRows[last.self]
          /\ iter_rows(heap, hier[last.res]) = last.preRows[last.self]
          /\ hier[last.self].name = last.pre[last.self].name
          /\ RowsOf(last.self) = last.preRows[last.self]
    /\ last.op = "construct" =>
          /\ last.ok /\ last.res # 0
          /\ hier[last.res].name = last.pre[last.self].name
          /\ RowsOf(last.res) = last.preRows[last.self]

\* ------------------------------------------------------------------ C25
RECURSIVE OffsetsOk(_, _)
\* under a level, the first child of every level starts at 0 and every other
\* child where the child before it ends
OffsetsOk(h, id) ==
    h[id].leaf \/
    \A i \in 1 .. Len(h[id].targets) :
        LET child == h[id].targets[i]
        IN /\ h[child].offset
                 = (IF i = 1 THEN 0
                    ELSE h[h[id].targets[i - 1]].offset
                            + LevelLen(h, h[id].targets[i - 1]))
           /\ OffsetsOk(h, child)

TreeMakers ==
    ConstructorOps \cup {"from_index_items", "from_labels_token", "add_level",
                         "drop_level"}

\* C25: in the tree of every hierarchy returned by a constructor, by add_level
\* or by drop_level, the offsets of the children of every level are contiguous
\* from 0
C25_Offsets ==
    (last.op \in TreeMakers /\ last.ok /\ last.res # 0) =>
        OffsetsOk(heap, hier[last.res].levels)

\* ------------------------------------------------------------------ C26
\* no level under id is a child of two levels, or twice a child of one
Exclusive(h, id) ==
    \A p, q \in Nodes(h, id) :
        \A i \in 1 .. Len(h[p].targets), j \in 1 .. Len(h[q].targets) :
            (p # q \/ i # j) => h[p].targets[i] # h[q].targets[j]

\* C26: in the tree of every hierarchy a constructor returns, no child level
\* is referenced by two parents
C26_Exclusive ==
    (last.op \in ConstructorOps \cup {"from_index_items", "from_labels_token"}
        /\ last.ok /\ last.res # 0) =>
        Exclusive(heap, hier[last.res].levels)

\* ------------------------------------------------------------------ C27
\* the leaf tuples a read may be asked for
ReadKeys == UNION {TuplesOfDepth(d) : d \in 1 .. 3}

\* the tuples iteration of instance i yields, in order
Yielded(i) == iter_rows(heap, hier[i])

\* "t in h" is true exactly for the tuples iteration yields
ContainsAgrees(i) ==
    \A t \in ReadKeys :
        contains(heap, hier[i], t) <=>
            \E p \in 1 .. Len(Yielded(i)) : Yielded(i)[p] = t

\* loc_to_iloc of a yielded tuple is its zero-based position in iteration
LocAgrees(i) ==
    \A p \in 1 .. Len(Yielded(i)) :
        loc_to_iloc(heap, hier[i], Yielded(i)[p]) = [ok |-> TRUE, pos |-> p - 1]

\* C27: on every growable hierarchy, whatever appends, extends and reads came
\* before, containment and loc_to_iloc (tree reads) agree with iteration (a
\* cache read)
C27_TreeReads ==
    \A i \in GrowHiers :
        hier[i].kind = "IHGO" => ContainsAgrees(i) /\ LocAgrees(i)

\* ------------------------------------------------------------------ C28
\* an append or extend that raised
FailedGrow == last'.op \in GrowOps /\ ~last'.ok

\* the call left rows, length, containment, flag and cache of instance i as
\* they were
Untouched(i) ==
    /\ FlattenRows(heap', hier'[i].levels) = FlattenRows(heap, hier[i].levels)
    /\ len(heap', hier'[i]).out = len(heap, hier[i]).out
    /\ \A t \in ReadKeys :
          contains(heap', hier'[i], t) <=> contains(heap, hier[i], t)
    /\ hier'[i].recache = hier[i].recache
    /\ hier'[i].blocks = hier[i].blocks

\* a cache marked valid before the call is the flattening of the tree after it
StillCoherent(i) ==
    ~hier[i].recache =>
        hier'[i].blocks.rows = FlattenRows(heap', hier'[i].levels)

====
